---- MODULE Spec2Model ----
(***************************************************************************)
(* State-machine model of the chess engine: Board (board.py), the          *)
(* per-kind movement strategies (movement_strategies.py) and the piece     *)
(* factory.  The program state is the Board object's fields; the actions   *)
(* are the Board's public operations called by a driver that plays moves   *)
(* drawn from small scripts.  An exception that leaves an operation is     *)
(* part of the model: the operation's result says whether it raised, and   *)
(* the Board keeps whatever the operation had written by then.             *)
(***************************************************************************)
EXTENDS Integers, Sequences, FiniteSets, TLC

VARIABLES
    grid,              \* Board.grid: 8x8 cells, each a piece or None
    current_turn,      \* Board.current_turn
    game_over,         \* Board.game_over
    last_move,         \* Board.last_move: NoMove or <<start, end>>
    move_counter,      \* Board.move_counter (halfmove clock)
    position_history,  \* Board.position_history: serialized position -> count
    move_history,      \* Board.move_history: stack of Move records
    script,            \* which scripted set of inputs the driver plays from
    call,              \* the last call made on the Board and what it returned
    pre,               \* the Board's fields just before the last call
    positions,         \* the (layout, side to move) pairs of the game so far
    budget,            \* calls made so far: accepted moves, undos
    imports            \* the names the modules can use beyond their own:
                       \* piece classes in movement_strategies.py, the
                       \* color constants in ai.py

vars == <<grid, current_turn, game_over, last_move, move_counter,
          position_history, move_history, script, call, pre,
          positions, budget, imports>>

-----------------------------------------------------------------------------
(* Bounds of the model *)

MaxMoves == 10      \* accepted moves the driver plays in a script
MaxLine == 101      \* accepted moves the driver plays in the "shuffle" script
MaxUndo == 1        \* undo_move calls the driver makes
MaxSearch == 1      \* choose_move calls the driver makes

-----------------------------------------------------------------------------
(* Values *)

WHITE == "white"
BLACK == "black"

BoardSize == 8

Idx == 0..(BoardSize - 1)

None == [kind |-> "None", color |-> "None", has_moved |-> FALSE]

NoMove == <<>>

\* What a call that answers True or False may do instead: return either, or
\* leave by an exception.
PyTrue == "True"
PyFalse == "False"
NameError == "NameError"

Py(x) == IF x THEN PyTrue ELSE PyFalse

\* A piece object: its class, its color and its has_moved flag.
create_piece(symbol, color) ==
    [kind |-> symbol, color |-> color, has_moved |-> FALSE]

\* ChessPiece.move(): marks the piece as having moved.
move(piece) == [piece EXCEPT !.has_moved = TRUE]

Other(color) == IF color = WHITE THEN BLACK ELSE WHITE

Abs(x) == IF x < 0 THEN -x ELSE x

Sign(x) == IF x < 0 THEN -1 ELSE IF x > 0 THEN 1 ELSE 0

Max2(x, y) == IF x > y THEN x ELSE y

\* A Python list of BoardSize items takes the indexes -BoardSize .. BoardSize - 1,
\* a negative one counting from the end; any other index is an IndexError.
Indexable(pos) ==
    /\ pos[1] \in -BoardSize..(BoardSize - 1)
    /\ pos[2] \in -BoardSize..(BoardSize - 1)

PyIndex(i) == IF i < 0 THEN i + BoardSize ELSE i

\* Squares are <<row, col>>; g[row][col] is the cell.
At(g, pos) == g[PyIndex(pos[1])][PyIndex(pos[2])]

SetCell(g, pos, v) == [g EXCEPT ![PyIndex(pos[1])][PyIndex(pos[2])] = v]

\* range(a, b, step) for step in {1, -1}, as a set
PyRange(a, b, step) ==
    IF step > 0 THEN {x \in a..(b - 1) : TRUE} ELSE {x \in (b + 1)..a : TRUE}

-----------------------------------------------------------------------------
(* Board.setup_board *)

back_rank_symbols == <<"R", "N", "B", "Q", "K", "B", "N", "R">>

setup_board ==
    [row \in Idx |->
        [col \in Idx |->
            IF row = 0 THEN create_piece(back_rank_symbols[col + 1], BLACK)
            ELSE IF row = 1 THEN create_piece("P", BLACK)
            ELSE IF row = 6 THEN create_piece("P", WHITE)
            ELSE IF row = 7 THEN create_piece(back_rank_symbols[col + 1], WHITE)
            ELSE None]]

-----------------------------------------------------------------------------
(* Serialization and the position history *)

Lower(kind) ==
    CASE kind = "K" -> "k" [] kind = "Q" -> "q" [] kind = "R" -> "r"
      [] kind = "B" -> "b" [] kind = "N" -> "n" [] kind = "P" -> "p"

\* str(piece): upper-case letter for white, lower-case for black
Str(piece) ==
    IF piece = None THEN "."
    ELSE IF piece.color = WHITE THEN piece.kind ELSE Lower(piece.kind)

\* The layout part of the serialization: the letters only, no has_moved.
Layout(g) == [row \in Idx |-> [col \in Idx |-> Str(g[row][col])]]

serialize_board(b) == <<Layout(b.grid), b.current_turn>>

\* defaultdict(int): a missing key reads as 0 ...
Count(ph, key) == IF key \in DOMAIN ph THEN ph[key] ELSE 0

\* ... and reading or updating a key through [] stores it.
Store(ph, key, n) == [k \in (DOMAIN ph) \cup {key} |-> IF k = key THEN n ELSE ph[k]]

update_position_history(b) ==
    LET serialized == serialize_board(b)
    IN  [b EXCEPT !.position_history =
            Store(b.position_history, serialized,
                  Count(b.position_history, serialized) + 1)]

-----------------------------------------------------------------------------
(* chess_piece.py: the piece classes, whose is_valid_move takes the grid     *)
(* (a list of rows) and asks can_move_to about the end square alone          *)

\* ChessPiece.can_move_to(end, board): the end square is empty or holds a
\* piece of the other color
can_move_to(piece, end, g) ==
    At(g, end) = None \/ At(g, end).color # piece.color

\* Queen.is_valid_move(start, end, board)
Queen_is_valid_move(piece, start, end, g) ==
    LET row_diff == Abs(start[1] - end[1])
        col_diff == Abs(start[2] - end[2])
    IN  IF row_diff = col_diff \/ start[1] = end[1] \/ start[2] = end[2]
        THEN can_move_to(piece, end, g)
        ELSE FALSE

\* Bishop.is_valid_move(start, end, board)
Bishop_is_valid_move(piece, start, end, g) ==
    /\ Abs(start[1] - end[1]) = Abs(start[2] - end[2])
    /\ can_move_to(piece, end, g)

\* Rook.is_valid_move(start, end, board)
Rook_is_valid_move(piece, start, end, g) ==
    IF start[1] = end[1] \/ start[2] = end[2]
    THEN can_move_to(piece, end, g)
    ELSE FALSE

\* the method of the class of a queen, bishop or rook
Piece_is_valid_move(piece, start, end, g) ==
    CASE piece.kind = "Q" -> Queen_is_valid_move(piece, start, end, g)
      [] piece.kind = "B" -> Bishop_is_valid_move(piece, start, end, g)
      [] piece.kind = "R" -> Rook_is_valid_move(piece, start, end, g)

-----------------------------------------------------------------------------
(* Piece-level helpers the strategies call *)

\* destination is empty or holds an enemy piece
can_capture_or_move_to(piece, end, b) ==
    LET target == At(b.grid, end)
    IN  target = None \/ target.color # piece.color

\* every square strictly between start and end (on a line) is empty
is_path_clear(start, end, b) ==
    LET dr == Sign(end[1] - start[1])
        dc == Sign(end[2] - start[2])
        n  == Max2(Abs(end[1] - start[1]), Abs(end[2] - start[2]))
    IN  \A i \in 1..(n - 1) :
            At(b.grid, <<start[1] + i * dr, start[2] + i * dc>>) = None

-----------------------------------------------------------------------------
(* movement_strategies.py.  Each strategy answers for (start, end, board,  *)
(* piece) with PyTrue or PyFalse, or leaves by NameError; the              *)
(* ignore_checks argument is accepted and never read, so it is not a       *)
(* parameter here.  is_valid_move and is_square_under_attack call each     *)
(* other (castling asks whether a square is attacked), hence the RECURSIVE *)
(* declarations.                                                            *)

RECURSIVE is_valid_move(_, _, _, _)
RECURSIVE is_square_under_attack(_, _, _)

\* KingMovementStrategy as it would be without its two has_moved tests: the
\* variant the castling properties are tried against.
KingForgettingHasMoved(start, end, b, piece) ==
    LET start_row == start[1]
        start_col == start[2]
        end_row == end[1]
        end_col == end[2]
        row_diff == Abs(start_row - end_row)
        col_diff == Abs(start_col - end_col)
        kingside == end_col = start_col + 2
        rook_start == IF kingside THEN <<start_row, 7>> ELSE <<start_row, 0>>
        rook_end == IF kingside THEN <<start_row, 5>> ELSE <<start_row, 3>>
        rook == At(b.grid, rook_start)
        step == IF rook_end[2] > start_col THEN 1 ELSE -1
        \* the loop over the columns the king passes, given what the attack
        \* test answers for each: it ends at the first column whose answer is
        \* not False
        PassLoop(attacked) ==
            LET stops == {col \in DOMAIN attacked : attacked[col] # PyFalse}
                first == CHOOSE col \in stops :
                             \A c2 \in stops : step * col <= step * c2
            IN  IF stops = {} THEN PyTrue
                ELSE IF attacked[first] = NameError THEN NameError
                ELSE PyFalse
    IN  IF Max2(row_diff, col_diff) = 1 /\ can_capture_or_move_to(piece, end, b)
        THEN PyTrue
        ELSE IF row_diff = 0 /\ col_diff = 2
        THEN IF rook.kind # "R" THEN PyFalse
             ELSE IF \E col \in PyRange(start_col + step, rook_end[2], step) :
                        At(b.grid, <<start_row, col>>) # None
             THEN PyFalse
             ELSE PassLoop([col \in PyRange(start_col, end_col + step, step) |->
                              is_square_under_attack(b, <<start_row, col>>,
                                                     Other(piece.color))])
        ELSE PyFalse

KingMovementStrategy(start, end, b, piece) ==
    LET start_row == start[1]
        start_col == start[2]
        end_row == end[1]
        end_col == end[2]
        row_diff == Abs(start_row - end_row)
        col_diff == Abs(start_col - end_col)
        kingside == end_col = start_col + 2
        rook_start == IF kingside THEN <<start_row, 7>> ELSE <<start_row, 0>>
        rook_end == IF kingside THEN <<start_row, 5>> ELSE <<start_row, 3>>
        rook == At(b.grid, rook_start)
        step == IF rook_end[2] > start_col THEN 1 ELSE -1
        \* the loop over the columns the king passes, given what the attack
        \* test answers for each: it ends at the first column whose answer is
        \* not False
        PassLoop(attacked) ==
            LET stops == {col \in DOMAIN attacked : attacked[col] # PyFalse}
                first == CHOOSE col \in stops :
                             \A c2 \in stops : step * col <= step * c2
            IN  IF stops = {} THEN PyTrue
                ELSE IF attacked[first] = NameError THEN NameError
                ELSE PyFalse
    IN  IF Max2(row_diff, col_diff) = 1 /\ can_capture_or_move_to(piece, end, b)
        THEN PyTrue
        ELSE IF ~piece.has_moved /\ row_diff = 0 /\ col_diff = 2
        THEN IF rook.kind # "R" \/ rook.has_moved THEN PyFalse
             ELSE IF \E col \in PyRange(start_col + step, rook_end[2], step) :
                        At(b.grid, <<start_row, col>>) # None
             THEN PyFalse
             ELSE PassLoop([col \in PyRange(start_col, end_col + step, step) |->
                              is_square_under_attack(b, <<start_row, col>>,
                                                     Other(piece.color))])
        ELSE PyFalse

QueenMovementStrategy(start, end, b, piece) ==
    LET row_diff == end[1] - start[1]
        col_diff == end[2] - start[2]
    IN  Py(/\ \/ Abs(row_diff) = Abs(col_diff)
              \/ start[1] = end[1]
              \/ start[2] = end[2]
           /\ is_path_clear(start, end, b)
           /\ can_capture_or_move_to(piece, end, b))

RookMovementStrategy(start, end, b, piece) ==
    Py(/\ start[1] = end[1] \/ start[2] = end[2]
       /\ is_path_clear(start, end, b)
       /\ can_capture_or_move_to(piece, end, b))

BishopMovementStrategy(start, end, b, piece) ==
    Py(/\ Abs(start[1] - end[1]) = Abs(start[2] - end[2])
       /\ is_path_clear(start, end, b)
       /\ can_capture_or_move_to(piece, end, b))

KnightMovementStrategy(start, end, b, piece) ==
    Py(/\ Abs(start[1] - end[1]) * Abs(start[2] - end[2]) = 2
       /\ can_capture_or_move_to(piece, end, b))

\* The en passant test names the class Pawn.  The module imports Rook alone
\* from chess_piece, so where Pawn is not among its names the test leaves by
\* NameError as soon as it is reached, whatever stands on the board.
PawnMovementStrategy(start, end, b, piece) ==
    LET start_row == start[1]
        start_col == start[2]
        end_row == end[1]
        end_col == end[2]
        direction == IF piece.color = WHITE THEN -1 ELSE 1
        start_row_standard == IF piece.color = WHITE THEN 6 ELSE 1
        intermediate_row == start_row + direction
        target_piece == At(b.grid, end)
        last_start == b.last_move[1]
        last_end == b.last_move[2]
        last_piece == At(b.grid, last_end)
    IN  IF /\ start_col = end_col
           /\ \/ end_row = start_row + direction /\ target_piece = None
              \/ /\ start_row = start_row_standard
                 /\ end_row = start_row + 2 * direction
                 /\ At(b.grid, <<intermediate_row, start_col>>) = None
                 /\ target_piece = None
        THEN PyTrue
        ELSE IF Abs(end_col - start_col) = 1 /\ end_row = start_row + direction
        THEN IF target_piece # None
             THEN Py(target_piece.color # piece.color)
             ELSE IF b.last_move = NoMove THEN PyFalse
             ELSE IF "Pawn" \notin imports THEN NameError
             ELSE Py(/\ last_piece.kind = "P"
                     /\ last_piece.color # piece.color
                     /\ Abs(last_end[1] - last_start[1]) = 2
                     /\ last_end[1] = start_row
                     /\ last_end[2] = end_col)
        ELSE PyFalse

\* ChessPiece.is_valid_move: the single dispatch point over the piece kind
is_valid_move(piece, start, end, b) ==
    CASE piece.kind = "K" -> KingMovementStrategy(start, end, b, piece)
      [] piece.kind = "Q" -> QueenMovementStrategy(start, end, b, piece)
      [] piece.kind = "R" -> RookMovementStrategy(start, end, b, piece)
      [] piece.kind = "B" -> BishopMovementStrategy(start, end, b, piece)
      [] piece.kind = "N" -> KnightMovementStrategy(start, end, b, piece)
      [] piece.kind = "P" -> PawnMovementStrategy(start, end, b, piece)

FromIndex(i) == <<i \div BoardSize, i % BoardSize>>

\* the last element in row-major order: what a loop running backwards takes
SetMax(S) == CHOOSE x \in S : \A y \in S : x >= y

SetMin(S) == CHOOSE x \in S : \A y \in S : x <= y

\* The loop is_in_check and is_square_under_attack share: the pieces of
\* by_color in row-major order, each asked whether it can move to position.
\* The first answer that is not False ends the loop and is what the loop
\* gives; with no such answer it gives False.
FirstAttack(b, position, by_color) ==
    LET attackers == {x \in 0..(BoardSize * BoardSize - 1) :
                         /\ At(b.grid, FromIndex(x)) # None
                         /\ At(b.grid, FromIndex(x)).color = by_color}
        Loop(answer) ==
            LET hits == {x \in attackers : answer[x] # PyFalse}
            IN  IF hits = {} THEN PyFalse ELSE answer[SetMin(hits)]
    IN  Loop([x \in attackers |->
                is_valid_move(At(b.grid, FromIndex(x)), FromIndex(x), position, b)])

is_square_under_attack(b, position, by_color) ==
    FirstAttack(b, position, by_color)

-----------------------------------------------------------------------------
(* Board status queries.  The queries that try moves out on the live grid  *)
(* answer with [ret, grid]: what they return (or NameError) and the grid   *)
(* they leave behind.                                                       *)

RowMajor(pos) == pos[1] * BoardSize + pos[2]

\* an is_in_check that goes on without a king position and leaves by an
\* exception
MissingKingRaises(b, color) == NameError

\* is_in_check when no king of color is found: the error is logged and the
\* answer is False
KingNotFound(b, color) == PyFalse

is_in_check(b, color) ==
    LET kings == {pos \in Idx \X Idx :
                     At(b.grid, pos).kind = "K" /\ At(b.grid, pos).color = color}
        \* the first king found scanning rows then columns
        king_position ==
            CHOOSE k \in kings : \A k2 \in kings : RowMajor(k) <= RowMajor(k2)
        opponent_color == Other(color)
    IN  IF kings = {} THEN KingNotFound(b, color)
        ELSE FirstAttack(b, king_position, opponent_color)

\* the destinations, from index d on, for which piece.is_valid_move does not
\* answer False on grid g
Candidates(b, piece, start, d, g) ==
    {x \in d..(BoardSize * BoardSize - 1) :
        is_valid_move(piece, start, FromIndex(x), [b EXCEPT !.grid = g]) # PyFalse}

\* has_legal_moves, destination loop.  A pass whose candidate is_valid_move
\* refuses does nothing, so the loop steps through the candidates it does
\* not refuse, in row-major order.  The scratch simulation moves the piece
\* alone (no en passant removal, no rook relocation) and puts both cells
\* back afterwards; an exception out of is_in_check leaves them as they are.
RECURSIVE HasLegalDestLoop(_, _, _, _, _)
HasLegalDestLoop(b, color, piece, start, cands) ==
    IF cands = {} THEN [ret |-> PyFalse, grid |-> b.grid]
    ELSE LET d == SetMin(cands)
             dest == FromIndex(d)
             simulated == SetCell(SetCell(b.grid, dest, piece), start, None)
             Pass(checked) ==
                 IF checked = NameError
                 THEN [ret |-> NameError, grid |-> simulated]
                 ELSE IF checked = PyFalse
                 THEN [ret |-> PyTrue, grid |-> b.grid]
                 ELSE HasLegalDestLoop(b, color, piece, start, cands \ {d})
         IN  IF is_valid_move(piece, start, dest, b) = NameError
             THEN [ret |-> NameError, grid |-> b.grid]
             ELSE Pass(is_in_check([b EXCEPT !.grid = simulated], color))

\* has_legal_moves, start loop over the pieces of the color (mine: their
\* squares still to visit)
RECURSIVE HasLegalStartLoop(_, _, _)
HasLegalStartLoop(b, color, mine) ==
    IF mine = {} THEN [ret |-> PyFalse, grid |-> b.grid]
    ELSE LET s == SetMin(mine)
             start == FromIndex(s)
             piece == At(b.grid, start)
             Pass(found) ==
                 IF found.ret # PyFalse THEN found
                 ELSE HasLegalStartLoop(b, color, mine \ {s})
         IN  Pass(HasLegalDestLoop(b, color, piece, start,
                      Candidates(b, piece, start, 0, b.grid)))

has_legal_moves(b, color) ==
    HasLegalStartLoop(b, color,
        {x \in 0..(BoardSize * BoardSize - 1) :
            /\ At(b.grid, FromIndex(x)) # None
            /\ At(b.grid, FromIndex(x)).color = color})

\* is_in_check(color) and not has_legal_moves(color)
is_checkmate(b, color) ==
    LET And(checked, legal) ==
            IF checked # PyTrue THEN [ret |-> checked, grid |-> b.grid]
            ELSE IF legal.ret = NameError THEN legal
            ELSE [ret |-> Py(legal.ret = PyFalse), grid |-> b.grid]
    IN  And(is_in_check(b, color), has_legal_moves(b, color))

\* not is_in_check(color) and not has_legal_moves(color)
is_stalemate(b, color) ==
    LET And(checked, legal) ==
            IF checked = NameError THEN [ret |-> NameError, grid |-> b.grid]
            ELSE IF checked = PyTrue THEN [ret |-> PyFalse, grid |-> b.grid]
            ELSE IF legal.ret = NameError THEN legal
            ELSE [ret |-> Py(legal.ret = PyFalse), grid |-> b.grid]
    IN  And(is_in_check(b, color), has_legal_moves(b, color))

FiftyMoveLimit == 100

\* a fifty-move rule that never applies: the variant the properties of the
\* rule are tried against
NeverFiftyMoves(b) == FALSE

is_fifty_move_rule(b) == b.move_counter >= FiftyMoveLimit

\* position_history[serialize_board()] >= 3; the lookup stores the key
is_threefold_repetition(b) == Count(b.position_history, serialize_board(b)) >= 3

TouchHistory(b) ==
    LET key == serialize_board(b)
    IN  [b EXCEPT !.position_history =
            Store(b.position_history, key, Count(b.position_history, key))]

is_draw(b) == is_fifty_move_rule(b) \/ is_threefold_repetition(b)

-----------------------------------------------------------------------------
(* Board.get_all_legal_moves.  The method simulates every candidate on the *)
(* live grid and puts the cells back afterwards, so the grid is threaded   *)
(* through the loops: acc = [grid, legal_moves, raised].                    *)

\* The body of the innermost loop once is_valid_move has accepted the
\* candidate: simulate, test for check, put the cells back.
LegalMovesBody(b, color, piece, start, dest, acc) ==
    LET captured0 == At(acc.grid, dest)
        original_piece == At(acc.grid, start)
        g1 == SetCell(SetCell(acc.grid, dest, piece), start, None)
        diagonal_to_empty ==
            piece.kind = "P" /\ dest[2] # start[2] /\ captured0 = None
        direction == IF piece.color = WHITE THEN 1 ELSE -1
        captured_pawn_pos == <<dest[1] + direction, dest[2]>>
        captured_pawn == At(g1, captured_pawn_pos)
        en_passant ==
            /\ diagonal_to_empty
            /\ captured_pawn.kind = "P"
            /\ captured_pawn.color # piece.color
        captured_piece == IF en_passant THEN captured_pawn ELSE captured0
        g2 == IF en_passant THEN SetCell(g1, captured_pawn_pos, None) ELSE g1
        \* undo the move: start cell, then destination cell, then the pawn
        g3 == SetCell(SetCell(g2, start, original_piece), dest, captured_piece)
        g4 == IF en_passant /\ captured_piece # None
              THEN SetCell(g3, captured_pawn_pos, captured_pawn)
              ELSE g3
        Pass(checked) ==
            IF checked = NameError
            THEN [grid |-> g2, legal_moves |-> acc.legal_moves, raised |-> TRUE]
            ELSE [grid |-> g4,
                  legal_moves |-> IF checked = PyFalse
                                  THEN Append(acc.legal_moves, <<start, dest>>)
                                  ELSE acc.legal_moves,
                  raised |-> FALSE]
    IN  Pass(is_in_check([b EXCEPT !.grid = g2], color))

\* The destination loop runs over all 64 squares in row-major order; a pass
\* changes nothing unless is_valid_move does not refuse its candidate, so the
\* loop steps from one such candidate to the next.  cands is judged on the
\* grid as it stands, and judged again whenever a pass has left the grid
\* changed.
RECURSIVE LegalMovesDestLoop(_, _, _, _, _, _)
LegalMovesDestLoop(b, color, piece, start, cands, acc) ==
    IF cands = {} \/ acc.raised THEN acc
    ELSE LET d == SetMin(cands)
             dest == FromIndex(d)
             valid == is_valid_move(piece, start, dest,
                                    [b EXCEPT !.grid = acc.grid])
             Continue(next) ==
                 LegalMovesDestLoop(b, color, piece, start,
                    IF next.grid = acc.grid THEN cands \ {d}
                    ELSE Candidates(b, piece, start, d + 1, next.grid),
                    next)
         IN  Continue(IF valid = NameError THEN [acc EXCEPT !.raised = TRUE]
                      ELSE LegalMovesBody(b, color, piece, start, dest, acc))

\* The start loop, likewise, steps from one piece of the color to the next.
RECURSIVE LegalMovesStartLoop(_, _, _, _)
LegalMovesStartLoop(b, color, s, acc) ==
    LET mine == {x \in s..(BoardSize * BoardSize - 1) :
                    /\ At(acc.grid, FromIndex(x)) # None
                    /\ At(acc.grid, FromIndex(x)).color = color}
        x0 == SetMin(mine)
        piece == At(acc.grid, FromIndex(x0))
    IN  IF mine = {} \/ acc.raised THEN acc
        ELSE LegalMovesStartLoop(b, color, x0 + 1,
                LegalMovesDestLoop(b, color, piece, FromIndex(x0),
                    Candidates(b, piece, FromIndex(x0), 0, acc.grid), acc))

\* returns [grid |-> the grid the call leaves, legal_moves |-> the list,
\* raised |-> whether it left by NameError instead of returning the list]
get_all_legal_moves(b, color) ==
    LegalMovesStartLoop(b, color, 0,
        [grid |-> b.grid, legal_moves |-> <<>>, raised |-> FALSE])

-----------------------------------------------------------------------------
(* Board.promote_pawn, Board.move_piece, Board.undo_move *)

PromotionChoices == {"Q", "R", "B", "N"}

\* the Move record pushed on move_history
Move(start, end, piece, captured_piece, special_move, promotion_piece) ==
    [start |-> start, end |-> end, piece |-> piece,
     captured_piece |-> captured_piece, special_move |-> special_move,
     promotion_piece |-> promotion_piece]

\* str.upper() on the answers a player may type at the promotion prompt
upper(answer) ==
    CASE answer = "q" -> "Q"
      [] answer = "r" -> "R"
      [] answer = "b" -> "B"
      [] answer = "n" -> "N"
      [] answer = "k" -> "K"
      [] answer = "p" -> "P"
      [] OTHER -> answer

\* a prompt that takes a queen whenever the answer is not one of Q, R, B, N
QueenByDefault(typed, i) ==
    IF upper(typed[i]) \in PromotionChoices THEN upper(typed[i]) ELSE "Q"

\* promote_pawn's loop: while True, read an answer, upper-case it, and leave
\* the loop with it once it is one of Q, R, B, N; any other answer prints
\* "Invalid choice" and the prompt comes again.  typed lists the answers the
\* player gives, i is the next one to be read.
RECURSIVE PromptLoop(_, _)
PromptLoop(typed, i) ==
    IF upper(typed[i]) \in PromotionChoices THEN upper(typed[i])
    ELSE PromptLoop(typed, i + 1)

\* promote_pawn with a valid choice: the new piece is placed, marked as
\* moved, and the move counter is reset.
promote_pawn(b, color, position, choice) ==
    LET new_piece == move(create_piece(choice, color))
    IN  [b EXCEPT !.grid = SetCell(b.grid, position, new_piece),
                  !.move_counter = 0]

\* The tail of move_piece, after the turn has switched: the draw tests, then
\* checkmate, stalemate and the check announcement for the opponent.
\* [raised, board]: an exception out of a test leaves move_piece with
\* everything before the tail already written and game_over not yet set.
MoveStatus(b, mover_color) ==
    LET opponent_color == Other(mover_color)
        \* t: the Board once the threefold test has looked its position up
        Tests(t, over) ==
            LET Announce(checked) ==
                    [raised |-> checked = NameError, board |-> t]
                Stalemate(stale) ==
                    IF stale.ret = NameError
                    THEN [raised |-> TRUE, board |-> [t EXCEPT !.grid = stale.grid]]
                    ELSE IF stale.ret = PyTrue THEN over
                    ELSE Announce(is_in_check(t, opponent_color))
                Checkmate(mate) ==
                    IF mate.ret = NameError
                    THEN [raised |-> TRUE, board |-> [t EXCEPT !.grid = mate.grid]]
                    ELSE IF mate.ret = PyTrue THEN over
                    ELSE Stalemate(is_stalemate(t, opponent_color))
            IN  IF is_threefold_repetition(b) THEN over
                ELSE Checkmate(is_checkmate(t, opponent_color))
        Touched(t) ==
            Tests(t, [raised |-> FALSE, board |-> [t EXCEPT !.game_over = TRUE]])
    IN  IF is_fifty_move_rule(b)
        THEN [raised |-> FALSE, board |-> [b EXCEPT !.game_over = TRUE]]
        ELSE Touched(TouchHistory(b))

\* a move counter that counts every move and is never reset: the variant the
\* properties of the counter are tried against
CountingEveryMove(counter, piece, captured_piece) == counter + 1

\* move_piece, "Update move counter": reset on a pawn move or a capture
update_move_counter(counter, piece, captured_piece) ==
    IF piece.kind = "P" \/ captured_piece # None THEN 0 ELSE counter + 1

\* What move_piece writes once is_valid_move has accepted the move, up to and
\* including the switch of turns: [ret, board], ret FALSE where it gives up.
MoveEffects(b, start, end, choice) ==
    LET start_row == start[1]
        start_col == start[2]
        end_row == end[1]
        end_col == end[2]
        piece == At(b.grid, start)
        captured0 == At(b.grid, end)
        \* en passant
        is_diag_empty == piece.kind = "P" /\ end_col # start_col /\ captured0 = None
        direction == IF piece.color = WHITE THEN 1 ELSE -1
        captured_pawn_pos == <<end_row + direction, end_col>>
        captured_pawn == At(b.grid, captured_pawn_pos)
        en_passant ==
            is_diag_empty /\ captured_pawn.kind = "P" /\ captured_pawn.color # piece.color
        captured_piece == IF en_passant THEN captured_pawn ELSE captured0
        \* castling
        is_castling == piece.kind = "K" /\ Abs(end_col - start_col) = 2
        kingside == end_col = start_col + 2
        rook_start == IF kingside THEN <<start_row, 7>> ELSE <<start_row, 0>>
        rook_end == IF kingside THEN <<start_row, 5>> ELSE <<start_row, 3>>
        \* promotion
        promotion_row == IF piece.color = WHITE THEN 0 ELSE 7
        is_promotion == piece.kind = "P" /\ end_row = promotion_row
        special_move ==
            IF is_promotion THEN "promotion"
            ELSE IF is_castling THEN "castling"
            ELSE IF en_passant THEN "en_passant"
            ELSE "None"
        SwitchTurn(b6) == [b6 EXCEPT !.current_turn = Other(b6.current_turn)]
        \* b3: the Board once the special moves have been handled
        Record(b3) ==
            LET promotion_piece == IF is_promotion THEN At(b3.grid, end) ELSE None
                \* the record holds the piece object, which piece.move() marks
                move_record == Move(start, end, move(piece), captured_piece,
                                    special_move, promotion_piece)
                g4 == SetCell(SetCell(b3.grid, end, move(piece)), start, None)
                g5 == IF piece.kind = "P" /\ promotion_piece # None
                      THEN SetCell(g4, end, promotion_piece) ELSE g4
            IN  SwitchTurn(update_position_history(
                    [b3 EXCEPT
                       !.move_history = Append(b3.move_history, move_record),
                       !.grid = g5,
                       !.last_move = <<start, end>>,
                       !.move_counter =
                           update_move_counter(b3.move_counter, piece,
                                               captured_piece)]))
        Promotion(b2) ==
            [ret |-> TRUE,
             board |-> Record(IF is_promotion
                              THEN promote_pawn(b2, piece.color, end, choice)
                              ELSE b2)]
        \* b1: the Board once an en passant capture has removed its pawn
        Castling(b1) ==
            LET rook == At(b1.grid, rook_start)
            IN  IF is_castling /\ rook.kind # "R"
                THEN [ret |-> FALSE, board |-> b1]
                ELSE Promotion(
                        IF is_castling
                        THEN [b1 EXCEPT !.grid =
                                SetCell(SetCell(b1.grid, rook_end, move(rook)),
                                        rook_start, None)]
                        ELSE b1)
    IN  IF is_diag_empty /\ ~en_passant THEN [ret |-> FALSE, board |-> b]
        ELSE Castling(IF en_passant
                      THEN [b EXCEPT !.grid = SetCell(b.grid, captured_pawn_pos, None),
                                     !.move_counter = 0]
                      ELSE b)

\* move_piece as it would be without its test of the piece's color against
\* current_turn: the variant the properties of the turn are tried against.
MoveOfEitherColor(b, start, end, choice) ==
    IF ~Indexable(start) THEN [ret |-> FALSE, raised |-> TRUE, board |-> b]
    ELSE
    LET piece == At(b.grid, start)
        rejected == [ret |-> FALSE, raised |-> FALSE, board |-> b]
        Returned(status) ==
            [ret |-> ~status.raised, raised |-> status.raised,
             board |-> status.board]
        Written(effects) ==
            IF ~effects.ret
            THEN [ret |-> FALSE, raised |-> FALSE, board |-> effects.board]
            ELSE Returned(MoveStatus(effects.board, piece.color))
        Validated(valid) ==
            IF valid = NameError
            THEN [ret |-> FALSE, raised |-> TRUE, board |-> b]
            ELSE IF valid = PyFalse THEN rejected
            ELSE Written(MoveEffects(b, start, end, choice))
    IN  IF piece = None THEN rejected
        ELSE Validated(is_valid_move(piece, start, end, b))

\* move_piece(start, end): [ret |-> what it returns, raised |-> whether it
\* left by an exception instead, board |-> the Board after].  Its first read
\* of the grid, self.grid[start_row][start_col], is an IndexError for a start
\* square no list index reaches.
move_piece(b, start, end, choice) ==
    IF ~Indexable(start) THEN [ret |-> FALSE, raised |-> TRUE, board |-> b]
    ELSE
    LET piece == At(b.grid, start)
        rejected == [ret |-> FALSE, raised |-> FALSE, board |-> b]
        Returned(status) ==
            [ret |-> ~status.raised, raised |-> status.raised,
             board |-> status.board]
        Written(effects) ==
            IF ~effects.ret
            THEN [ret |-> FALSE, raised |-> FALSE, board |-> effects.board]
            ELSE Returned(MoveStatus(effects.board, piece.color))
        Validated(valid) ==
            IF valid = NameError
            THEN [ret |-> FALSE, raised |-> TRUE, board |-> b]
            ELSE IF valid = PyFalse THEN rejected
            ELSE Written(MoveEffects(b, start, end, choice))
    IN  IF piece = None THEN rejected
        ELSE IF piece.color # b.current_turn THEN rejected
        ELSE Validated(is_valid_move(piece, start, end, b))

\* an undo with nothing to undo that hands the turn to the other side
NoHistorySwitchingTurns(b) ==
    [ret |-> FALSE, raised |-> FALSE,
     board |-> [b EXCEPT !.current_turn = Other(@)]]

\* undo_move() when move_history is empty: "No moves to undo.", return False
NoHistory(b) == [ret |-> FALSE, raised |-> FALSE, board |-> b]

\* undo_move(): [ret, raised, board].  raised: rook.has_moved = False on an
\* empty cell (an AttributeError), after the cells were already rewritten.
undo_move(b) ==
    IF b.move_history = <<>> THEN NoHistory(b)
    ELSE
    LET n == Len(b.move_history)
        last == b.move_history[n]
        popped == SubSeq(b.move_history, 1, n - 1)
        g1 == SetCell(SetCell(b.grid, last.start, last.piece),
                      last.end, last.captured_piece)
        direction == IF last.piece.color = WHITE THEN 1 ELSE -1
        captured_pawn_pos == <<last.end[1] + direction, last.end[2]>>
        kingside == last.end[2] = 5
        queenside == last.end[2] = 3
        rook_start == IF kingside THEN <<last.start[1], 7>> ELSE <<last.start[1], 0>>
        rook_end == IF kingside THEN <<last.start[1], 5>> ELSE <<last.start[1], 3>>
        rook == At(g1, rook_end)
        castling_bad_state ==
            last.special_move = "castling" /\ ~kingside /\ ~queenside
        castling_no_rook ==
            last.special_move = "castling" /\ ~castling_bad_state /\ rook = None
        g2 == CASE last.special_move = "en_passant" ->
                     SetCell(g1, captured_pawn_pos, last.captured_piece)
                [] last.special_move = "castling" ->
                     IF rook = None
                     THEN SetCell(SetCell(g1, rook_start, None), rook_end, None)
                     ELSE SetCell(SetCell(g1, rook_start,
                                          [rook EXCEPT !.has_moved = FALSE]),
                                  rook_end, None)
                [] last.special_move = "promotion" ->
                     SetCell(SetCell(g1, last.end, None), last.start,
                             create_piece("P", last.piece.color))
                [] OTHER -> g1
        counter == IF last.piece.kind = "P" \/ last.captured_piece # None THEN 0
                   ELSE IF b.move_counter > 0 THEN b.move_counter - 1
                   ELSE b.move_counter
        \* b3: the Board with the cells and the move counter put back
        Restored(b3) ==
            LET current_serialized == serialize_board(b3)
            IN  [b3 EXCEPT
                   !.position_history =
                       Store(b3.position_history, current_serialized,
                             Count(b3.position_history, current_serialized) - 1),
                   !.current_turn = Other(b3.current_turn),
                   !.game_over = FALSE]
    IN  IF castling_bad_state
        THEN [ret |-> FALSE, raised |-> FALSE,
              board |-> [b EXCEPT !.move_history = popped, !.grid = g1]]
        ELSE IF castling_no_rook
        THEN [ret |-> FALSE, raised |-> TRUE,
              board |-> [b EXCEPT !.move_history = popped, !.grid = g2]]
        ELSE [ret |-> TRUE, raised |-> FALSE,
              board |-> Restored([b EXCEPT !.move_history = popped, !.grid = g2,
                                           !.move_counter = counter])]

-----------------------------------------------------------------------------
(* AIPlayer: choose_move, create_move_object, minimax.  The search works   *)
(* on the live Board with move_piece and undo_move, so the Board is        *)
(* threaded through the loops, and an exception out of a call ends the     *)
(* search where it stands.                                                  *)

\* float('inf'): above every score the evaluation can give
Inf == 1000

Min2(x, y) == IF x < y THEN x ELSE y

PieceValue(kind) ==
    CASE kind = "P" -> 1
      [] kind = "N" -> 3
      [] kind = "B" -> 3
      [] kind = "R" -> 5
      [] kind = "Q" -> 9
      [] OTHER -> 0

\* Board.evaluate_board(color): the material of color minus the material of
\* the other side
evaluate_board(b, color) ==
    LET Material(c) ==
            LET RECURSIVE Sum(_)
                Sum(S) == IF S = {} THEN 0
                          ELSE LET sq == CHOOSE x \in S : TRUE
                               IN  PieceValue(At(b.grid, sq).kind) + Sum(S \ {sq})
            IN  Sum({sq \in Idx \X Idx : At(b.grid, sq).color = c})
    IN  Material(color) - Material(Other(color))

\* AIPlayer.create_move_object
create_move_object(move_coords, b) ==
    Move(move_coords[1], move_coords[2], At(b.grid, move_coords[1]),
         At(b.grid, move_coords[2]), "None", None)

\* ai.py names WHITE and BLACK without importing them
AiNames == {"ai.WHITE", "ai.BLACK"}

RECURSIVE minimax(_, _, _, _, _, _, _)
RECURSIVE MinimaxLoop(_, _, _, _, _, _, _)

\* A pass of a minimax loop works on acc = [board, value, alpha, beta, cut,
\* raised, plies]; plies collects, for every interior node searched, the side
\* whose moves it generated and the role it played.  The pass is written in
\* stages, each taking the result of the call before it.

\* an exception out of a call of the pass
MinimaxFailed(acc, board, plies) ==
    [acc EXCEPT !.board = board, !.raised = TRUE, !.plies = acc.plies \cup plies]

\* ... after board.undo_move(): the running value and the window
MinimaxUndone(is_maximizing, acc, eval, plies, u) ==
    IF u.raised THEN MinimaxFailed(acc, u.board, plies)
    ELSE LET alpha == IF is_maximizing THEN Max2(acc.alpha, eval) ELSE acc.alpha
             beta == IF is_maximizing THEN acc.beta ELSE Min2(acc.beta, eval)
         IN  [board |-> u.board,
              value |-> IF is_maximizing THEN Max2(acc.value, eval)
                        ELSE Min2(acc.value, eval),
              alpha |-> alpha, beta |-> beta, cut |-> beta <= alpha,
              raised |-> FALSE, plies |-> acc.plies \cup plies,
              matched |-> acc.matched /\ u.ret]

\* ... after the recursive call, s its result
MinimaxSearched(is_maximizing, acc, s) ==
    IF s.raised THEN MinimaxFailed(acc, s.board, s.plies)
    ELSE MinimaxUndone(is_maximizing, [acc EXCEPT !.matched = @ /\ s.matched],
                       s.score, s.plies, undo_move(s.board))

\* ... after board.move_piece(move.start, move.end), m its result
MinimaxMoved(color, depth, is_maximizing, acc, choice, m) ==
    IF m.raised THEN MinimaxFailed(acc, m.board, {})
    ELSE MinimaxSearched(is_maximizing, [acc EXCEPT !.matched = @ /\ m.ret],
            minimax(m.board, color, depth - 1, acc.alpha, acc.beta,
                    ~is_maximizing, choice))

\* ... after create_move_object, move_object its result
MinimaxCreated(color, depth, is_maximizing, acc, choice, move_object) ==
    MinimaxMoved(color, depth, is_maximizing, acc, choice,
        move_piece(acc.board, move_object.start, move_object.end, choice))

MinimaxBody(color, depth, is_maximizing, move_coords, acc, choice) ==
    MinimaxCreated(color, depth, is_maximizing, acc, choice,
        create_move_object(move_coords, acc.board))

\* for move_coords in moves, until a cut-off or an exception
MinimaxLoop(color, depth, is_maximizing, moves, i, acc, choice) ==
    IF i > Len(moves) \/ acc.raised \/ acc.cut THEN acc
    ELSE MinimaxLoop(color, depth, is_maximizing, moves, i + 1,
            MinimaxBody(color, depth, is_maximizing, moves[i], acc, choice),
            choice)

\* what minimax returns once its loop has ended in acc
MinimaxFinished(acc) ==
    [score |-> acc.value, board |-> acc.board, raised |-> acc.raised,
     plies |-> acc.plies, matched |-> acc.matched]

\* an interior node, after board.get_all_legal_moves(mover), l its result
MinimaxGenerated(b, color, depth, alpha, beta, is_maximizing, choice, mover, l) ==
    IF l.raised
    THEN [score |-> 0, board |-> [b EXCEPT !.grid = l.grid], raised |-> TRUE,
          plies |-> {<<mover, is_maximizing>>}, matched |-> TRUE]
    ELSE MinimaxFinished(
            MinimaxLoop(color, depth, is_maximizing, l.legal_moves, 1,
                [board |-> [b EXCEPT !.grid = l.grid],
                 value |-> IF is_maximizing THEN -Inf ELSE Inf,
                 alpha |-> alpha, beta |-> beta, cut |-> FALSE,
                 raised |-> FALSE, plies |-> {<<mover, is_maximizing>>},
                 matched |-> TRUE],
                choice))

\* minimax(board, depth, alpha, beta, is_maximizing) of the player of color:
\* [score, board, raised, plies].  choice answers the promotion prompt a move
\* of the search may reach.  The minimizing branch names BLACK and WHITE.
minimax(b, color, depth, alpha, beta, is_maximizing, choice) ==
    IF depth = 0 \/ b.game_over
    THEN [score |-> evaluate_board(b, color), board |-> b, raised |-> FALSE,
          plies |-> {}, matched |-> TRUE]
    ELSE IF ~is_maximizing /\ ~(AiNames \subseteq imports)
    THEN [score |-> 0, board |-> b, raised |-> TRUE, plies |-> {},
          matched |-> TRUE]
    ELSE MinimaxGenerated(b, color, depth, alpha, beta, is_maximizing, choice,
            IF is_maximizing THEN color ELSE Other(color),
            get_all_legal_moves(b, IF is_maximizing THEN color ELSE Other(color)))

\* A pass of choose_move's loop works on acc = [board, best_score, best_move,
\* raised, plies, scores, matched], in the same stages.  scores lists the
\* score of every root move searched so far; matched says that every
\* move_piece and every undo_move of the search so far returned True.
ChooseFailed(acc, board, plies) ==
    [acc EXCEPT !.board = board, !.raised = TRUE, !.plies = acc.plies \cup plies]

\* ... after board.undo_move(): the comparison with the best score so far
ChooseUndone(color, move_coords, acc, score, plies, u) ==
    IF u.raised THEN ChooseFailed(acc, u.board, plies)
    ELSE LET better == IF color = WHITE THEN score > acc.best_score
                       ELSE score < acc.best_score
         IN  [board |-> u.board,
              best_score |-> IF better THEN score ELSE acc.best_score,
              best_move |-> IF better THEN move_coords ELSE acc.best_move,
              raised |-> FALSE, plies |-> acc.plies \cup plies,
              scores |-> Append(acc.scores, score),
              matched |-> acc.matched /\ u.ret]

ChooseSearched(color, move_coords, acc, s) ==
    IF s.raised THEN ChooseFailed(acc, s.board, s.plies)
    ELSE ChooseUndone(color, move_coords,
                      [acc EXCEPT !.matched = @ /\ s.matched], s.score,
                      s.plies, undo_move(s.board))

ChooseMoved(color, depth, move_coords, acc, choice, m) ==
    IF m.raised THEN ChooseFailed(acc, m.board, {})
    ELSE ChooseSearched(color, move_coords,
            [acc EXCEPT !.matched = @ /\ m.ret],
            minimax(m.board, color, depth - 1, -Inf, Inf, FALSE, choice))

ChooseCreated(color, depth, move_coords, acc, choice, move_object) ==
    ChooseMoved(color, depth, move_coords, acc, choice,
        move_piece(acc.board, move_object.start, move_object.end, choice))

ChooseBody(color, depth, move_coords, acc, choice) ==
    ChooseCreated(color, depth, move_coords, acc, choice,
        create_move_object(move_coords, acc.board))

\* for move_coords in legal_moves
RECURSIVE ChooseLoop(_, _, _, _, _, _)
ChooseLoop(color, depth, moves, i, acc, choice) ==
    IF i > Len(moves) \/ acc.raised THEN acc
    ELSE ChooseLoop(color, depth, moves, i + 1,
            ChooseBody(color, depth, moves[i], acc, choice), choice)

\* what choose_move returns once its loop has ended in acc: best_move is
\* NoMove for None; random says that the fallback draws it from legal_moves
ChooseFinished(legal_moves, acc) ==
    [best_move |-> acc.best_move, best_score |-> acc.best_score,
     legal_moves |-> legal_moves,
     random |-> ~acc.raised /\ acc.best_move = NoMove /\ legal_moves # <<>>,
     board |-> acc.board, raised |-> acc.raised, plies |-> acc.plies,
     scores |-> acc.scores, matched |-> acc.matched]

\* ... after board.get_all_legal_moves(self.color), l its result
ChooseGenerated(b, color, depth, choice, l) ==
    IF l.raised
    THEN [best_move |-> NoMove, best_score |-> 0, legal_moves |-> <<>>,
          random |-> FALSE, board |-> [b EXCEPT !.grid = l.grid],
          raised |-> TRUE, plies |-> {}, scores |-> <<>>, matched |-> TRUE]
    ELSE ChooseFinished(l.legal_moves,
            ChooseLoop(color, depth, l.legal_moves, 1,
                [board |-> [b EXCEPT !.grid = l.grid],
                 best_score |-> IF color = WHITE THEN -Inf ELSE Inf,
                 best_move |-> NoMove, raised |-> FALSE, plies |-> {},
                 scores |-> <<>>, matched |-> TRUE],
                choice))

\* choose_move(board) of AIPlayer(color, depth): [best_move, best_score,
\* legal_moves, random, board, raised, plies].  Its first line names WHITE.
choose_move(b, color, depth, choice) ==
    IF ~(AiNames \subseteq imports)
    THEN [best_move |-> NoMove, best_score |-> 0, legal_moves |-> <<>>,
          random |-> FALSE, board |-> b, raised |-> TRUE, plies |-> {},
          scores |-> <<>>, matched |-> TRUE]
    ELSE ChooseGenerated(b, color, depth, choice,
                         get_all_legal_moves(b, color))

-----------------------------------------------------------------------------
(* The state machine: a Board and a driver calling its operations *)

Board ==
    [grid |-> grid, current_turn |-> current_turn, game_over |-> game_over,
     last_move |-> last_move, move_counter |-> move_counter,
     position_history |-> position_history, move_history |-> move_history]

SetBoard(b) ==
    /\ grid' = b.grid
    /\ current_turn' = b.current_turn
    /\ game_over' = b.game_over
    /\ last_move' = b.last_move
    /\ move_counter' = b.move_counter
    /\ position_history' = b.position_history
    /\ move_history' = b.move_history

\* Board.__init__
NewBoard ==
    update_position_history(
        [grid |-> setup_board, current_turn |-> WHITE, game_over |-> FALSE,
         last_move |-> NoMove, move_counter |-> 0,
         position_history |-> <<>>, move_history |-> <<>>])

Mv(r1, c1, r2, c2) == <<<<r1, c1>>, <<r2, c2>>>>

\* The games the scripts play, move by move.
\* a2a4 e7e6 a4a5 d8h4 f2f3
CheckLine ==
    <<Mv(6,0,4,0), Mv(1,4,2,4), Mv(4,0,3,0), Mv(0,3,4,7), Mv(6,5,5,5)>>

\* g1f3 b8c6 g2g3 c6b8 f1g2 b8c6 e1g1
CastleLine ==
    <<Mv(7,6,5,5), Mv(0,1,2,2), Mv(6,6,5,6), Mv(2,2,0,1), Mv(7,5,6,6),
      Mv(0,1,2,2), Mv(7,4,7,6)>>

\* a2a4 b7b5 a4b5 a7a6 b5a6 c8b7 a6b7 b8c6, then b7a8 or b7b8
PromoLine ==
    <<Mv(6,0,4,0), Mv(1,1,3,1), Mv(4,0,3,1), Mv(1,0,2,0), Mv(3,1,2,0),
      Mv(0,2,1,1), Mv(2,0,1,1), Mv(0,1,2,2), Mv(1,1,0,0)>>

\* g1f3 g8f6 f3g1 f6g8, over and over
ShuffleCycle == <<Mv(7,6,5,5), Mv(0,6,2,5), Mv(5,5,7,6), Mv(2,5,0,6)>>

\* A game of knight moves in which no position comes a third time before the
\* hundredth move: White's knights go round six positions (g1f3 b1c3 f3g5
\* g5h3 c3b1 h3g1), Black's round ten (b8c6 c6a5 a5b3 g8f6 f6h5 b3a5 a5c6
\* c6b8 h5f6 f6g8), so the game repeats after thirty moves of each side.
WhiteTour ==
    <<Mv(7,6,5,5), Mv(7,1,5,2), Mv(5,5,3,6), Mv(3,6,5,7), Mv(5,2,7,1),
      Mv(5,7,7,6)>>

BlackTour ==
    <<Mv(0,1,2,2), Mv(2,2,3,0), Mv(3,0,5,1), Mv(0,6,2,5), Mv(2,5,3,7),
      Mv(5,1,3,0), Mv(3,0,2,2), Mv(2,2,0,1), Mv(3,7,2,5), Mv(2,5,0,6)>>

\* d2d4 e7e6 a2a4 f8c5 a4a5 a7a6 f2f3 c5a7 e1f2 b7b5
PinLine ==
    <<Mv(6,3,4,3), Mv(1,4,2,4), Mv(6,0,4,0), Mv(0,5,3,2), Mv(4,0,3,0),
      Mv(1,0,2,0), Mv(6,5,5,5), Mv(3,2,1,0), Mv(7,4,6,5), Mv(1,1,3,1)>>

\* a2a4 h7h5 g2g3 h5h4 f1g2 h4h3 a4a5 h3g2 e1g1
MarchLine ==
    <<Mv(6,0,4,0), Mv(1,7,3,7), Mv(6,6,5,6), Mv(3,7,4,7), Mv(7,5,6,6),
      Mv(4,7,5,7), Mv(4,0,3,0), Mv(5,7,6,6), Mv(7,4,7,6)>>

\* g1f3 h7h5 f3e5 h5h4 a2a3 e7e6 a3a4 e8e7 b2b3 e7f6 b3b4 f6g5 b4b5 g5h5
\* d2d3 a7a6 g2g4 (check; h4g3 en passant is the one legal reply), h4g3
EscapeLine ==
    <<Mv(7,6,5,5), Mv(1,7,3,7), Mv(5,5,3,4), Mv(3,7,4,7), Mv(6,0,5,0),
      Mv(1,4,2,4), Mv(5,0,4,0), Mv(0,4,1,4), Mv(6,1,5,1), Mv(1,4,2,5),
      Mv(5,1,4,1), Mv(2,5,3,6), Mv(4,1,3,1), Mv(3,6,3,7), Mv(6,3,5,3),
      Mv(1,0,2,0), Mv(6,6,4,6), Mv(4,7,5,6)>>

\* e2e4 d7d5 e4d5 d8d5 b1c3
CaptureLine ==
    <<Mv(6,4,4,4), Mv(1,3,3,3), Mv(4,4,3,3), Mv(0,3,3,3), Mv(7,1,5,2)>>

\* e2e4 d7d5 e4e5 a7a6 b1c3 a6a5 c3d5; after an undo of c3d5 the driver
\* also tries e5d6
StaleLine ==
    <<Mv(6,4,4,4), Mv(1,3,3,3), Mv(4,4,3,4), Mv(1,0,2,0), Mv(7,1,5,2),
      Mv(2,0,3,0), Mv(5,2,3,3)>>

\* g1f3 b8c6 g2g3 c6b8 f1g2 b8c6, then the king steps to f1 and back and
\* tries to castle: e1f1 c6b8 f1e1 b8c6 e1g1
KingBackLine ==
    SubSeq(CastleLine, 1, 6) \o
    <<Mv(7,4,7,5), Mv(2,2,0,1), Mv(7,5,7,4), Mv(0,1,2,2), Mv(7,4,7,6)>>

\* the same with the rook: h1g1 c6b8 g1h1 b8c6 e1g1; the driver also tries
\* e1g1 while the rook is away on g1
RookBackLine ==
    SubSeq(CastleLine, 1, 6) \o
    <<Mv(7,7,7,6), Mv(2,2,0,1), Mv(7,6,7,7), Mv(0,1,2,2), Mv(7,4,7,6)>>

\* b1c3 h7h6 c3b5 h6h5 e2e4 h5h4 e4e5 d7d5 e5d6: en passant with a white
\* knight ahead of the white pawns, so that has_legal_moves finds a knight
\* move before it tries a pawn's diagonal step
KnightLeadLine ==
    <<Mv(7,1,5,2), Mv(1,7,2,7), Mv(5,2,3,1), Mv(2,7,3,7), Mv(6,4,4,4),
      Mv(3,7,4,7), Mv(4,4,3,4), Mv(1,3,3,3), Mv(3,4,2,3)>>

\* g1f3 h7h6 f3d4 h6h5 d4b5 h5h4 b5c7 (check) h4h3 c7e8: Black leaves its
\* king attacked and the knight takes it
KingCaptureLine ==
    <<Mv(7,6,5,5), Mv(1,7,2,7), Mv(5,5,4,3), Mv(2,7,3,7), Mv(4,3,3,1),
      Mv(3,7,4,7), Mv(3,1,1,2), Mv(4,7,5,7), Mv(1,2,0,4)>>

\* fool's mate: f2f3 e7e5 g2g4 d8h4
FoolsMateLine == <<Mv(6,5,5,5), Mv(1,4,3,4), Mv(6,6,4,6), Mv(0,3,4,7)>>

\* the shortest game that ends in stalemate: e2e3 a7a5 d1h5 a8a6 h5a5 h7h5
\* h2h4 a6h6 a5c7 f7f6 c7d7 e8f7 d7b7 d8d3 b7b8 d3h7 b8c8 f7g6 c8e6
StalemateLine ==
    <<Mv(6,4,5,4), Mv(1,0,3,0), Mv(7,3,3,7), Mv(0,0,2,0), Mv(3,7,3,0),
      Mv(1,7,3,7), Mv(6,7,4,7), Mv(2,0,2,7), Mv(3,0,1,2), Mv(1,5,2,5),
      Mv(1,2,1,3), Mv(0,4,1,5), Mv(1,3,1,1), Mv(0,3,5,3), Mv(1,1,0,1),
      Mv(5,3,1,7), Mv(0,1,0,2), Mv(1,5,2,6), Mv(0,2,2,4)>>

\* a2a4 b8a6
PruneLine == <<Mv(6,0,4,0), Mv(0,1,2,0)>>

\* e2e4 e7e5
DeepLine == <<Mv(6,4,4,4), Mv(1,4,3,4)>>

\* e1g1 or e1c1 as the first move of the game
EarlyCastles == {Mv(7,4,7,6), Mv(7,4,7,2)}

\* First moves with a coordinate outside 0..7: the e2 pawn addressed as
\* (-2, 4) and sent to (-3, 4); the g1 knight addressed as (7, -2) and sent
\* to (5, -1); a start square in row 8; the e2 pawn sent to row 8.
OutOfRangeMoves == {Mv(-2,4,-3,4), Mv(7,-2,5,-1), Mv(8,4,7,4), Mv(6,4,8,4)}

\* Moves move_piece has to refuse.  On the new Board: e4e5 (no piece on e4),
\* e7e5 (a black piece, White to move), a1a3 (the rook through its own pawn),
\* e2e5 (a pawn three squares ahead), b1b3 (no knight's move).  After e2e4:
\* a2a3 (a white piece, Black to move), d7e6 (a pawn diagonally onto an empty
\* square, no en passant to make), e8e7 (the king onto its own pawn).
RefusedFirst ==
    {Mv(4,4,3,4), Mv(1,4,3,4), Mv(7,0,5,0), Mv(6,4,3,4), Mv(7,1,5,1)}

RefusedSecond == {Mv(6,0,5,0), Mv(1,3,2,4), Mv(0,4,1,4)}

Step(line, n) == IF n < Len(line) THEN {line[n + 1]} ELSE {}

\* The inputs the driver may play when n moves are on the history, as
\* (start, end) pairs in board coordinates.  "enpassant" offers the same set
\* at every point; the others play one game in order.
ScriptMoves(s, n) ==
    CASE s = "check" -> Step(CheckLine, n)
      [] s = "castle" -> Step(CastleLine, n)
      [] s = "promo" ->
            Step(PromoLine, n) \cup (IF n = 8 THEN {Mv(1,1,0,1)} ELSE {})
      [] s = "shuffle" -> {ShuffleCycle[(n % 4) + 1]}
      [] s = "tour" ->   \* and a2a3 once a hundred moves are played
            (IF n % 2 = 0 THEN {WhiteTour[((n \div 2) % Len(WhiteTour)) + 1]}
             ELSE {BlackTour[((n \div 2) % Len(BlackTour)) + 1]})
            \cup (IF n = FiftyMoveLimit THEN {Mv(6,0,5,0)} ELSE {})
      [] s = "enpassant" ->   \* e2e4 a7a6 e4e5 d7d5 e5d6 e5f6
            {Mv(6,4,4,4), Mv(1,0,2,0), Mv(4,4,3,4), Mv(1,3,3,3), Mv(3,4,2,3),
             Mv(3,4,2,5)}
      [] s = "pin" -> Step(PinLine, n)
      [] s = "early" -> IF n = 0 THEN EarlyCastles ELSE {}
      [] s = "range" -> IF n = 0 THEN OutOfRangeMoves ELSE {}
      [] s = "refuse" ->   \* e2e4 d7d5 among the moves to refuse
            IF n = 0 THEN {Mv(6,4,4,4)} \cup RefusedFirst
            ELSE IF n = 1 THEN {Mv(1,3,3,3)} \cup RefusedSecond
            ELSE {}
      [] s = "march" -> Step(MarchLine, n)
      [] s = "escape" -> Step(EscapeLine, n)
      [] s = "capture" -> Step(CaptureLine, n)
      [] s = "deep" -> Step(DeepLine, n)
      [] s = "lead" -> Step(KnightLeadLine, n)
      [] s = "kingless" -> Step(KingCaptureLine, n)
      [] s = "prune" -> Step(PruneLine, n)
      [] s = "fool" -> Step(FoolsMateLine, n)
      [] s = "loyd" -> Step(StalemateLine, n)
      [] s = "kingback" -> Step(KingBackLine, n)
      [] s = "rookback" ->
            Step(RookBackLine, n) \cup (IF n = 8 THEN {Mv(7,4,7,6)} ELSE {})
      [] s = "stale" ->
            Step(StaleLine, n) \cup (IF n = 6 THEN {Mv(3,4,2,3)} ELSE {})

Scripts == {"check", "castle", "promo", "shuffle", "enpassant", "pin", "early",
            "march", "escape", "capture", "deep", "stale", "kingback",
            "rookback", "range", "refuse", "tour", "fool", "loyd",
            "lead", "kingless", "prune"}

\* how many accepted moves, and how many undos, the driver makes in a script
MoveCap(s) ==
    IF s \in {"shuffle", "tour", "escape", "kingback", "rookback", "loyd"}
    THEN MaxLine
    ELSE MaxMoves

UndoCap(s) == IF s \in {"shuffle", "tour"} THEN 0 ELSE MaxUndo

\* the depth main gives the AIPlayer it constructs for the game
AiDepth(s) == IF s = "deep" THEN 2 ELSE 1

\* the depth a caller of minimax passes: what choose_move passes for a root
\* move of an AIPlayer of the default depth, 3
MinimaxDepth == 2

\* how many minimax calls of its own the driver makes in a script
MinimaxCap(s) == IF s = "prune" THEN MaxSearch ELSE 0

\* does move_piece(start, end) reach the promotion prompt?
Prompts(b, start, end) ==
    LET piece == At(b.grid, start)
    IN  /\ Indexable(start)
        /\ piece.kind = "P"
        /\ piece.color = b.current_turn
        /\ end[1] = (IF piece.color = WHITE THEN 0 ELSE 7)
        /\ is_valid_move(piece, start, end, b) = PyTrue

\* what the player types at the promotion prompt, up to the first answer
\* that is accepted
TypedAnswers ==
    {<<"Q">>, <<"R">>, <<"B">>, <<"N">>, <<"n">>, <<"X", "N">>,
     <<"", "K", "p", "r">>, <<"queen", "B">>}

\* what a call that is no search leaves in call.search
NoSearch == [scores |-> <<>>, random |-> FALSE, matched |-> TRUE]

NoCall ==
    [op |-> "new", start |-> <<>>, end |-> <<>>, color |-> "None",
     choice |-> "None", ret |-> TRUE, raised |-> FALSE, legal_moves |-> <<>>,
     depth |-> 0, plies |-> {}, search |-> NoSearch, typed |-> <<>>]

\* a new Board, the driver about to play one of the scripts
Start(scripts) ==
    /\ script \in scripts
    /\ grid = NewBoard.grid
    /\ current_turn = NewBoard.current_turn
    /\ game_over = NewBoard.game_over
    /\ last_move = NewBoard.last_move
    /\ move_counter = NewBoard.move_counter
    /\ position_history = NewBoard.position_history
    /\ move_history = NewBoard.move_history
    /\ call = NoCall
    /\ pre = NewBoard
    /\ positions = <<serialize_board(NewBoard)>>
    /\ budget = [moves |-> 0, undos |-> 0, searches |-> 0]

\* The program as written: movement_strategies.py imports Rook, and nothing
\* else, from chess_piece.
Init == Start(Scripts) /\ imports = {"Rook"}

\* The program with Pawn imported next to Rook, which is what the en passant
\* test of PawnMovementStrategy needs in order to answer at all.
InitPawnImported ==
    Start({"enpassant", "pin", "march", "escape", "stale", "refuse", "fool",
           "loyd", "lead", "prune"})
    /\ imports = {"Rook", "Pawn"}

\* The program with every name its modules use in place: Pawn imported in
\* movement_strategies.py, WHITE and BLACK imported in ai.py, and the Board
\* with its evaluate_board.  This is the program whose search runs at all.
InitSearch ==
    Start({"capture", "deep", "prune"}) /\ imports = {"Rook", "Pawn"} \cup AiNames

\* No caller catches the exceptions modelled here (main catches ValueError
\* alone), so a call that raised is the last one the program makes.
Running == ~call.raised

\* The status queries of the Board.  The driver asks them last: a query
\* that has answered is followed by no further call.
StatusQueries == {"is_in_check", "is_checkmate", "is_stalemate", "is_draw"}

Asking == call.op \in StatusQueries

\* what a query's call leaves in call
Asked(op, color, answer) ==
    [op |-> op, start |-> <<>>, end |-> <<>>, color |-> color,
     choice |-> "None", ret |-> answer = PyTrue, raised |-> answer = NameError,
     legal_moves |-> <<>>, depth |-> 0, plies |-> {}, search |-> NoSearch, typed |-> <<>>]

\* the driver calls board.move_piece(start, end); when the move reaches the
\* promotion prompt the player types the answers of typed, and choice is the
\* one promote_pawn's loop leaves with
MovePiece(start, end, typed) ==
    /\ Running
    /\ ~Asking
    /\ budget.moves < MoveCap(script)
    /\ \E choice \in {IF typed = <<>> THEN "None" ELSE PromptLoop(typed, 1)} :
       \E r \in {move_piece(Board, start, end, choice)} :
        /\ SetBoard(r.board)
        /\ call' = [op |-> "move_piece", start |-> start, end |-> end,
                    color |-> current_turn, choice |-> choice, ret |-> r.ret,
                    raised |-> r.raised, legal_moves |-> <<>>,
                    depth |-> 0, plies |-> {}, search |-> NoSearch,
                    typed |-> typed]
        /\ pre' = Board
        /\ positions' = IF r.ret THEN Append(positions, serialize_board(r.board))
                        ELSE positions
        /\ budget' = IF r.ret THEN [budget EXCEPT !.moves = @ + 1] ELSE budget
        /\ UNCHANGED <<script, imports>>

\* the driver calls board.undo_move()
UndoMove ==
    /\ Running
    /\ ~Asking
    /\ budget.undos < UndoCap(script)
    /\ \E r \in {undo_move(Board)} :
        /\ SetBoard(r.board)
        /\ call' = [op |-> "undo_move", start |-> <<>>, end |-> <<>>,
                    color |-> current_turn, choice |-> "None", ret |-> r.ret,
                    raised |-> r.raised, legal_moves |-> <<>>,
                    depth |-> 0, plies |-> {}, search |-> NoSearch, typed |-> <<>>]
        /\ pre' = Board
        /\ positions' = IF r.ret /\ Len(positions) > 1
                        THEN SubSeq(positions, 1, Len(positions) - 1)
                        ELSE positions
        /\ budget' = [budget EXCEPT !.undos = @ + 1]
        /\ UNCHANGED <<script, imports>>

\* the moves a caller asks the piece classes about on a new Board: a1a3,
\* c1a3, d1d4, d1h5 and a1a7 (each over a pawn), a1a2 (onto a pawn), a1b3
\* and d1e3 (off the piece's lines)
ProbedMoves ==
    {Mv(7,0,5,0), Mv(7,2,5,0), Mv(7,3,4,3), Mv(7,3,3,7), Mv(7,0,1,0),
     Mv(7,0,6,0), Mv(7,0,5,1), Mv(7,3,5,4)}

\* a caller asks the piece on start, a queen, bishop or rook, whether it can
\* move to end: piece.is_valid_move(start, end, grid), before the first move
PieceIsValidMove(start, end) ==
    /\ call.op = "new"
    /\ At(grid, start).kind \in {"Q", "B", "R"}
    /\ call' = [op |-> "is_valid_move", start |-> start, end |-> end,
                color |-> At(grid, start).color, choice |-> "None",
                ret |-> Piece_is_valid_move(At(grid, start), start, end, grid),
                raised |-> FALSE, legal_moves |-> <<>>,
                depth |-> 0, plies |-> {}, search |-> NoSearch, typed |-> <<>>]
    /\ pre' = Board
    /\ UNCHANGED <<grid, current_turn, game_over, last_move, move_counter,
                   position_history, move_history, script, positions, budget,
                   imports>>

\* the driver calls board.get_all_legal_moves(color); it asks after a call
\* that succeeded, not after a rejected one (which left the Board as it was)
GetAllLegalMoves(color) ==
    /\ Running
    /\ ~Asking
    /\ call.ret
    /\ \E r \in {get_all_legal_moves(Board, color)} :
        /\ SetBoard([Board EXCEPT !.grid = r.grid])
        /\ call' = [op |-> "get_all_legal_moves", start |-> <<>>, end |-> <<>>,
                    color |-> color, choice |-> "None", ret |-> ~r.raised,
                    raised |-> r.raised, legal_moves |-> r.legal_moves,
                    depth |-> 0, plies |-> {}, search |-> NoSearch, typed |-> <<>>]
        /\ pre' = Board
        /\ UNCHANGED <<script, positions, budget, imports>>

\* main's loop, on the AI's turn, calls ai_player.choose_move(board): at the
\* start of the game or after the other side's accepted move.  A promotion
\* prompt reached inside the search is answered "Q".
ChooseMove(color) ==
    /\ Running
    /\ ~game_over
    /\ call.op = "new" \/ (call.op = "move_piece" /\ call.ret)
    /\ color = current_turn
    /\ budget.searches < MaxSearch
    /\ \E r \in {choose_move(Board, color, AiDepth(script), "Q")} :
        \E best \in (IF r.random
                     THEN {r.legal_moves[i] : i \in 1..Len(r.legal_moves)}
                     ELSE {r.best_move}) :
            /\ SetBoard(r.board)
            /\ call' = [op |-> "choose_move",
                        start |-> IF best = NoMove THEN <<>> ELSE best[1],
                        end |-> IF best = NoMove THEN <<>> ELSE best[2],
                        color |-> color, choice |-> "None",
                        ret |-> ~r.raised, raised |-> r.raised,
                        legal_moves |-> r.legal_moves,
                        depth |-> AiDepth(script), plies |-> r.plies,
                        search |-> [scores |-> r.scores, random |-> r.random,
                                    matched |-> r.matched],
                        typed |-> <<>>]
            /\ pre' = Board
            /\ budget' = [budget EXCEPT !.searches = @ + 1]
            /\ UNCHANGED <<script, positions, imports>>

\* a caller asks the engine of color for the value of the position its move
\* has just produced, as choose_move does for a root move:
\* AIPlayer(color).minimax(board, 2, -inf, inf, False)
Minimax(color) ==
    /\ Running
    /\ ~game_over
    /\ call.op = "move_piece" /\ call.ret
    /\ color = Other(current_turn)
    /\ budget.searches < MinimaxCap(script)
    /\ \E r \in {minimax(Board, color, MinimaxDepth, -Inf, Inf, FALSE, "Q")} :
        /\ SetBoard(r.board)
        /\ call' = [op |-> "minimax", start |-> <<>>, end |-> <<>>,
                    color |-> color, choice |-> "None",
                    ret |-> ~r.raised, raised |-> r.raised,
                    legal_moves |-> <<>>,
                    depth |-> MinimaxDepth, plies |-> r.plies,
                    search |-> [scores |-> <<r.score>>, random |-> FALSE,
                                matched |-> r.matched],
                    typed |-> <<>>]
        /\ pre' = Board
        /\ budget' = [budget EXCEPT !.searches = @ + 1]
        /\ UNCHANGED <<script, positions, imports>>

\* the driver calls board.is_in_check(color)
IsInCheck(color) ==
    /\ Running
    /\ ~Asking
    /\ \E answer \in {is_in_check(Board, color)} :
        /\ call' = Asked("is_in_check", color, answer)
        /\ pre' = Board
        /\ UNCHANGED <<grid, current_turn, game_over, last_move, move_counter,
                       position_history, move_history, script, positions,
                       budget, imports>>

\* the driver calls board.is_checkmate(color)
IsCheckmate(color) ==
    /\ Running
    /\ ~Asking
    /\ \E r \in {is_checkmate(Board, color)} :
        /\ grid' = r.grid
        /\ call' = Asked("is_checkmate", color, r.ret)
        /\ pre' = Board
        /\ UNCHANGED <<current_turn, game_over, last_move, move_counter,
                       position_history, move_history, script, positions,
                       budget, imports>>

\* the driver calls board.is_stalemate(color)
IsStalemate(color) ==
    /\ Running
    /\ ~Asking
    /\ \E r \in {is_stalemate(Board, color)} :
        /\ grid' = r.grid
        /\ call' = Asked("is_stalemate", color, r.ret)
        /\ pre' = Board
        /\ UNCHANGED <<current_turn, game_over, last_move, move_counter,
                       position_history, move_history, script, positions,
                       budget, imports>>

\* the driver calls board.is_draw(): is_fifty_move_rule() or
\* is_threefold_repetition(), the second looked at only if the first is False
IsDraw ==
    /\ Running
    /\ ~Asking
    /\ position_history' = IF is_fifty_move_rule(Board) THEN position_history
                           ELSE TouchHistory(Board).position_history
    /\ call' = Asked("is_draw", "None", Py(is_draw(Board)))
    /\ pre' = Board
    /\ UNCHANGED <<grid, current_turn, game_over, last_move, move_counter,
                   move_history, script, positions, budget, imports>>

Next ==
    \/ \E m \in ScriptMoves(script, Len(move_history)) :
          \E typed \in (IF Prompts(Board, m[1], m[2])
                        THEN TypedAnswers ELSE {<<>>}) :
              MovePiece(m[1], m[2], typed)
    \/ UndoMove
    \/ \E color \in {WHITE, BLACK} : GetAllLegalMoves(color)
    \/ \E color \in {WHITE, BLACK} : ChooseMove(color)
    \/ \E color \in {WHITE, BLACK} : IsInCheck(color)
    \/ \E color \in {WHITE, BLACK} : IsCheckmate(color)
    \/ \E color \in {WHITE, BLACK} : IsStalemate(color)
    \/ IsDraw
    \/ \E m \in ProbedMoves : PieceIsValidMove(m[1], m[2])
    \/ \E color \in {WHITE, BLACK} : Minimax(color)

Spec == Init /\ [][Next]_vars

SpecPawnImported == InitPawnImported /\ [][Next]_vars

SpecSearch == InitSearch /\ [][Next]_vars

-----------------------------------------------------------------------------
(* Helpers of the properties *)

\* the Board once move_piece has written (start, end) on b and switched turns
Applied(b, start, end, choice) == MoveEffects(b, start, end, choice).board

\* (start, end) is a move of the side to move that the piece's rules accept
\* and whose application leaves the mover's own king attacked
LeavesOwnKingInCheck(b, start, end, choice) ==
    LET piece == At(b.grid, start)
    IN  /\ piece # None
        /\ piece.color = b.current_turn
        /\ is_valid_move(piece, start, end, b) = PyTrue
        /\ is_in_check(Applied(b, start, end, choice), piece.color) = PyTrue

\* the answers the promotion prompt can get when (start, end) is played on b
ChoicesFor(b, start, end) ==
    LET piece == At(b.grid, start)
    IN  IF piece.kind = "P" /\ end[1] = (IF piece.color = WHITE THEN 0 ELSE 7)
        THEN PromotionChoices ELSE {"None"}

\* two position histories give every position the same count
SameCounts(ph1, ph2) ==
    \A key \in (DOMAIN ph1) \cup (DOMAIN ph2) : Count(ph1, key) = Count(ph2, key)

\* how many times key occurs in the sequence of positions
Occurrences(seq, key) == Cardinality({i \in 1..Len(seq) : seq[i] = key})

LastMove == move_history[Len(move_history)]

\* the last call was a move_piece that returned True
Accepted == call.op = "move_piece" /\ call.ret

\* the last call was an accepted move_piece recorded with this special move
AcceptedSpecial(tag) ==
    Accepted /\ move_history # <<>> /\ LastMove.special_move = tag

\* the last call was a get_all_legal_moves that returned its list
Listed == call.op = "get_all_legal_moves" /\ ~call.raised

\* the squares strictly between two squares of one row
Between(row, c1, c2) ==
    {<<row, c>> : c \in {x \in Idx : (c1 < x /\ x < c2) \/ (c2 < x /\ x < c1)}}

\* the piece on square from attacks square to on grid g, by the rules of
\* chess: a pawn attacks the two squares diagonally in front of it and no
\* other
Attacks(g, from, to) ==
    LET piece == At(g, from)
        dr == to[1] - from[1]
        dc == to[2] - from[2]
        clear == \A i \in 1..(Max2(Abs(dr), Abs(dc)) - 1) :
                     At(g, <<from[1] + i * Sign(dr), from[2] + i * Sign(dc)>>) = None
    IN  /\ from # to
        /\ CASE piece.kind = "P" ->
                    Abs(dc) = 1 /\ dr = (IF piece.color = WHITE THEN -1 ELSE 1)
              [] piece.kind = "N" -> Abs(dr) * Abs(dc) = 2
              [] piece.kind = "K" -> Max2(Abs(dr), Abs(dc)) = 1
              [] piece.kind = "R" -> (dr = 0 \/ dc = 0) /\ clear
              [] piece.kind = "B" -> Abs(dr) = Abs(dc) /\ clear
              [] piece.kind = "Q" ->
                    (dr = 0 \/ dc = 0 \/ Abs(dr) = Abs(dc)) /\ clear
              [] OTHER -> FALSE

\* some piece of by_color attacks square sq on grid g
Attacked(g, sq, by_color) ==
    \E from \in Idx \X Idx :
        At(g, from).color = by_color /\ Attacks(g, from, sq)

\* the squares of grid g that hold a piece of color
Squares(g, color) == {sq \in Idx \X Idx : At(g, sq).color = color}

-----------------------------------------------------------------------------
(* Properties *)

\* C1: move_piece rejects every move that would leave the mover's own king
\* attacked: it returns False and the grid and current_turn are unchanged.
C1_RejectsMoveIntoCheck ==
    (/\ call.op = "move_piece"
     /\ ~call.raised
     /\ LeavesOwnKingInCheck(pre, call.start, call.end, call.choice))
    => (~call.ret /\ grid = pre.grid /\ current_turn = pre.current_turn)

C3_UndoRoundTrip ==
    [][(Accepted /\ call'.op = "undo_move")
        => /\ grid' = pre.grid
           /\ current_turn' = pre.current_turn
           /\ move_counter' = pre.move_counter
           /\ SameCounts(position_history', pre.position_history)]_vars

\* C4: after an accepted castling move (made with the squares between king
\* and rook empty) followed by undo_move, undo_move returns True, the king is
\* back on its start square, the rook is back on its corner, the squares the
\* two had occupied after castling are empty, and it is the castling side's
\* turn again.
C4_UndoCastling ==
    [][(/\ AcceptedSpecial("castling")
        /\ \A sq \in Between(call.start[1], call.start[2],
                             IF call.end[2] > call.start[2] THEN 7 ELSE 0) :
               At(pre.grid, sq) = None
        /\ call'.op = "undo_move")
        => LET row == call.start[1]
               kingside == call.end[2] > call.start[2]
               corner == IF kingside THEN <<row, 7>> ELSE <<row, 0>>
               rook_end == IF kingside THEN <<row, 5>> ELSE <<row, 3>>
           IN  /\ call'.ret
               /\ At(grid', call.start).kind = "K"
               /\ At(grid', call.start).color = call.color
               /\ At(grid', corner).kind = "R"
               /\ At(grid', corner).color = call.color
               /\ At(grid', call.end) = None
               /\ At(grid', rook_end) = None
               /\ current_turn' = call.color]_vars

C6_UndoPromotion ==
    [][(AcceptedSpecial("promotion") /\ call'.op = "undo_move")
        => /\ At(grid', call.start).kind = "P"
           /\ At(grid', call.start).color = call.color
           /\ At(grid', call.end) = At(pre.grid, call.end)]_vars

\* C7: once game_over is true, every further move_piece call is rejected and
\* leaves the Board unchanged.
C7_GameOverFreezesMoves ==
    (call.op = "move_piece" /\ pre.game_over) => (~call.ret /\ Board = pre)

\* C8: whenever an accepted move produces a (layout, side to move) pair that
\* has now occurred three times in the game (the initial position counted),
\* is_draw() is true and game_over has been set.
C8_ThreefoldRepetition ==
    (/\ Accepted
     /\ budget.undos = 0
     /\ Occurrences(positions, serialize_board(Board)) >= 3)
    => (is_draw(Board) /\ game_over)

\* C9: in every state reached by accepted moves, the count position_history
\* holds for the current serialized position equals the number of times that
\* (layout, side to move) pair has occurred in the game.
C9_HistoryCountsOccurrences ==
    ((call.op = "new" \/ Accepted) /\ budget.undos = 0)
    => Count(position_history, serialize_board(Board))
           = Occurrences(positions, serialize_board(Board))

\* C10: get_all_legal_moves is a pure query: a call returns its list and
\* leaves the grid as it was, and a second call right after the first returns
\* the same list.
C10_LegalMovesIsPure ==
    [][call'.op = "get_all_legal_moves"
        => /\ ~call'.raised
           /\ grid' = grid
           /\ (call.op = "get_all_legal_moves" /\ call.color = call'.color)
                => call'.legal_moves = call.legal_moves]_vars

\* C11: castling is accepted only if every square strictly between the king
\* and the rook it castles with is empty; in particular it is not accepted
\* from the initial position.
C11_CastlingNeedsEmptyPath ==
    AcceptedSpecial("castling")
    => \A sq \in Between(call.start[1], call.start[2],
                         IF call.end[2] > call.start[2] THEN 7 ELSE 0) :
           At(pre.grid, sq) = None

C13_NoOwnPieceRemoved ==
    Accepted
    => Cardinality(Squares(grid, call.color)) = Cardinality(Squares(pre.grid, call.color))

Searched == call.op = "choose_move" /\ ~call.raised

C19_UndoRestoresHasMoved ==
    (call.op = "undo_move" /\ call.ret /\ move_history = <<>>) =>
        \A sq \in Idx \X Idx : ~At(grid, sq).has_moved

\* the corner the rook of a castling move (start, end) comes from
Corner(start, end) == <<start[1], IF end[2] > start[2] THEN 7 ELSE 0>>

\* the moves of the game so far, before the last call, that satisfy Test
Earlier(Test(_)) ==
    {i \in 1..Len(pre.move_history) : Test(pre.move_history[i])}

\* C20: castling is accepted only for a king that has made no move of the
\* game so far, with a rook that stands in its corner and has never left it:
\* no move of the game so far starts or ends on that corner.  Pieces that
\* have returned to their squares do not count as unmoved.
C20_CastlingNeedsUnmovedPieces ==
    AcceptedSpecial("castling") =>
        LET corner == Corner(call.start, call.end)
            KingMove(m) == m.piece.kind = "K" /\ m.piece.color = call.color
            CornerMove(m) == m.start = corner \/ m.end = corner
        IN  /\ Earlier(KingMove) = {}
            /\ At(pre.grid, corner).kind = "R"
            /\ Earlier(CornerMove) = {}

\* C20, its case: the king has stepped away and come back to e1, the rook
\* has not moved, the squares between them are empty, and e1g1 is refused.
C20_ReturnedKingRefused ==
    LET KingMove(m) == m.piece.kind = "K" /\ m.piece.color = call.color
        CornerMove(m) == m.start = <<7, 7>> \/ m.end = <<7, 7>>
    IN  /\ call.op = "move_piece" /\ ~call.ret /\ ~call.raised
        /\ call.start = <<7, 4>> /\ call.end = <<7, 6>>
        /\ At(pre.grid, call.start).kind = "K"
        /\ At(pre.grid, <<7, 7>>).kind = "R"
        /\ At(pre.grid, <<7, 5>>) = None /\ At(pre.grid, <<7, 6>>) = None
        /\ Earlier(KingMove) # {}
        /\ Earlier(CornerMove) = {}

\* a square with both coordinates in 0..7
OnBoard(pos) == pos[1] \in Idx /\ pos[2] \in Idx

\* the last call was a move_piece, between squares of the board, that did
\* not make its move: nothing was pushed on move_history
Refused ==
    /\ call.op = "move_piece"
    /\ OnBoard(call.start) /\ OnBoard(call.end)
    /\ move_history = pre.move_history

\* C21: whenever move_piece rejects a move (no piece on the start square, a
\* piece of the side not to move, a move the piece's rules or the occupancy
\* of the squares forbid, castling without its preconditions), it returns
\* False and grid, current_turn, move_counter, last_move, position_history,
\* move_history and game_over are unchanged.
C21_RejectionLeavesBoardUnchanged ==
    Refused => (~call.raised /\ ~call.ret /\ Board = pre)

\* C22: move_piece called with a start or end square that has a row or a
\* column outside 0..7 returns False, without an exception and without
\* reading the coordinate as another square's, and leaves the Board as it was.
C22_OutOfRangeRejected ==
    (call.op = "move_piece" /\ ~(OnBoard(call.start) /\ OnBoard(call.end)))
    => (~call.raised /\ ~call.ret /\ Board = pre)

\* C23: is_in_check, is_checkmate, is_stalemate and is_draw are pure
\* queries: in whatever position one of them is called, it leaves grid,
\* current_turn, move_counter, last_move, move_history and position_history,
\* the set of its keys included, exactly as they were before the call.
C23_QueriesArePure ==
    Asking =>
        /\ grid = pre.grid
        /\ current_turn = pre.current_turn
        /\ move_counter = pre.move_counter
        /\ last_move = pre.last_move
        /\ move_history = pre.move_history
        /\ DOMAIN position_history = DOMAIN pre.position_history
        /\ position_history = pre.position_history

\* C24: current_turn alternates strictly: every accepted move_piece changes
\* current_turn to the other color, the piece it moved was of the color
\* whose turn it was, and a move_piece that returns False leaves current_turn
\* as it was.
C24_TurnsAlternate ==
    (call.op = "move_piece" /\ ~call.raised) =>
        IF call.ret
        THEN /\ current_turn = Other(pre.current_turn)
             /\ At(pre.grid, call.start).color = pre.current_turn
        ELSE current_turn = pre.current_turn

\* C24, its case: after an accepted move, a piece of the side that has just
\* moved is asked to move again and move_piece returns False.
C24_WrongColorRefused ==
    /\ call.op = "move_piece" /\ ~call.ret /\ ~call.raised
    /\ pre.move_history # <<>>
    /\ OnBoard(call.start)
    /\ At(pre.grid, call.start) # None
    /\ At(pre.grid, call.start).color = Other(pre.current_turn)
    /\ pre.move_history[Len(pre.move_history)].piece.color = Other(pre.current_turn)

C26_FiftyMoveRule ==
    (/\ Accepted
     /\ pre.move_counter = FiftyMoveLimit - 1
     /\ At(pre.grid, call.start).kind # "P"
     /\ At(pre.grid, call.end) = None)
    => (move_counter = FiftyMoveLimit /\ is_draw(Board) /\ game_over)

\* C26, its case: the game is not over and no position has come three times
\* when the hundredth move without a pawn move or a capture is accepted; the
\* move ends the game.
C26_HundredthMoveEndsGame ==
    /\ Accepted
    /\ pre.move_counter = FiftyMoveLimit - 1
    /\ ~pre.game_over
    /\ ~is_threefold_repetition(Board)
    /\ move_counter = FiftyMoveLimit
    /\ game_over

\* (from, to) is a move of the piece on from by the rules of chess, whether
\* or not it leaves its own king attacked.  Castling is left out: where it is
\* legal, so is the king's step onto the square it passes.
RuleMove(b, from, to) ==
    LET piece == At(b.grid, from)
        target == At(b.grid, to)
        forward == IF piece.color = WHITE THEN -1 ELSE 1
        home == IF piece.color = WHITE THEN 6 ELSE 1
        top == b.move_history[Len(b.move_history)]
    IN  /\ piece # None
        /\ target.color # piece.color
        /\ IF piece.kind # "P" THEN Attacks(b.grid, from, to)
           ELSE \/ /\ to = <<from[1] + forward, from[2]>>
                   /\ target = None
                \/ /\ from[1] = home
                   /\ to = <<from[1] + 2 * forward, from[2]>>
                   /\ target = None
                   /\ At(b.grid, <<from[1] + forward, from[2]>>) = None
                \/ /\ Attacks(b.grid, from, to)
                   /\ target # None
                \/ /\ Attacks(b.grid, from, to)
                   /\ target = None
                   /\ b.move_history # <<>>
                   /\ top.piece.kind = "P"
                   /\ top.piece.color # piece.color
                   /\ Abs(top.end[1] - top.start[1]) = 2
                   /\ top.end = <<from[1], to[2]>>

\* the grid once the move (from, to) has been made by the rules of chess: a
\* pawn that steps diagonally onto an empty square takes the pawn beside it
RuleGrid(g, from, to) ==
    LET moved == SetCell(SetCell(g, to, At(g, from)), from, None)
    IN  IF At(g, from).kind = "P" /\ from[2] # to[2] /\ At(g, to) = None
        THEN SetCell(moved, <<from[1], to[2]>>, None)
        ELSE moved

\* no king of color is attacked on grid g
KingSafe(g, color) ==
    \A sq \in Squares(g, color) :
        At(g, sq).kind = "K" => ~Attacked(g, sq, Other(color))

\* color has no legal move on b, by the rules of chess
NoLegalMove(b, color) ==
    \A from \in Squares(b.grid, color) : \A to \in Idx \X Idx :
        RuleMove(b, from, to) => ~KingSafe(RuleGrid(b.grid, from, to), color)

\* the last call was a move_piece that made its move: it pushed it on
\* move_history
Made ==
    call.op = "move_piece" /\ Len(move_history) = Len(pre.move_history) + 1

\* C27: a move_piece that makes its move returns True, and whenever the move
\* leaves the opponent without a legal move, its king attacked (checkmate, as
\* after f3 e5 g4 Qh4 from a new Board) or not (stalemate), game_over is true
\* when move_piece returns.
C27_NoLegalMoveEndsGame ==
    Made => (call.ret /\ (NoLegalMove(Board, current_turn) => game_over))

\* the last call was a move_piece asked to capture en passant: on the Board
\* it was given, a pawn of the side to move steps diagonally forward onto an
\* empty square and the move on top of move_history is the double step of an
\* enemy pawn that ended beside it
EnPassantTried ==
    /\ call.op = "move_piece"
    /\ OnBoard(call.start) /\ OnBoard(call.end)
    /\ ~pre.game_over
    /\ pre.move_history # <<>>
    /\ LET piece == At(pre.grid, call.start)
           top == pre.move_history[Len(pre.move_history)]
       IN  /\ piece.kind = "P"
           /\ piece.color = pre.current_turn
           /\ call.end[1] =
                  call.start[1] + (IF piece.color = WHITE THEN -1 ELSE 1)
           /\ Abs(call.end[2] - call.start[2]) = 1
           /\ At(pre.grid, call.end) = None
           /\ top.piece.kind = "P"
           /\ top.piece.color # piece.color
           /\ Abs(top.end[1] - top.start[1]) = 2
           /\ top.end = <<call.start[1], call.end[2]>>

\* C28: a move_piece asked to capture en passant gives an answer, and when
\* it accepts the capture the enemy pawn is gone from its actual square (the
\* capturer's start row, the destination column), the capturing pawn stands
\* on the destination square and the removed pawn is recorded as the captured
\* piece of the move.
C28_EnPassantCapture ==
    EnPassantTried =>
        /\ ~call.raised
        /\ call.ret =>
              LET own == <<call.start[1], call.end[2]>>
              IN  /\ At(grid, own) = None
                  /\ At(grid, call.start) = None
                  /\ At(grid, call.end).kind = "P"
                  /\ At(grid, call.end).color = pre.current_turn
                  /\ LastMove.special_move = "en_passant"
                  /\ LastMove.captured_piece = At(pre.grid, own)
                  /\ LastMove.captured_piece.kind = "P"
                  /\ LastMove.captured_piece.color = current_turn

\* C28 (case): an en passant capture was accepted
C28_EnPassantAccepted == EnPassantTried /\ call.ret

\* C29: undo_move called with an empty move_history returns False and changes
\* nothing: grid, current_turn, move_counter, position_history, game_over and
\* every other field of the Board are what they were.
C29_UndoWithoutHistory ==
    (call.op = "undo_move" /\ pre.move_history = <<>>) =>
        /\ ~call.raised
        /\ ~call.ret
        /\ Board = pre

\* C29 (case): undo_move was called with an empty move_history and returned
C29_NothingToUndo ==
    /\ call.op = "undo_move"
    /\ pre.move_history = <<>>
    /\ move_history = <<>>
    /\ ~call.ret

\* the list get_all_legal_moves(color) returns on Board b, as a set
LegalMovesOf(b, color) ==
    UNION {{l.legal_moves[i] : i \in 1..Len(l.legal_moves)} :
              l \in {get_all_legal_moves(b, color)}}

\* C30: choose_move returns, and what it returns is None exactly when
\* get_all_legal_moves of the engine's color is empty on the Board it was
\* given; otherwise it is a move of that list.
C30_ChoosesALegalMove ==
    call.op = "choose_move" =>
        /\ ~call.raised
        /\ \E legal \in {LegalMovesOf(pre, call.color)} :
              IF legal = {} THEN call.start = <<>>
              ELSE <<call.start, call.end>> \in legal

\* C30 (case): choose_move returned a move
C30_MoveChosen ==
    call.op = "choose_move" /\ ~call.raised /\ call.start # <<>>

\* score is better for the engine of color than other: higher for White,
\* lower for Black
Better(color, score, other) ==
    IF color = WHITE THEN score > other ELSE score < other

\* the sentinel best_score starts from
Sentinel(color) == IF color = WHITE THEN -Inf ELSE Inf

\* C31: choose_move returns, and its tie-break is deterministic: the move it
\* returns is the first root move, in the order of legal_moves, whose score
\* no other root move's score beats; the random choice is made only when no
\* root move's score improves on the sentinel best_score starts from.
C31_FirstBestMoveWins ==
    call.op = "choose_move" =>
        /\ ~call.raised
        /\ Len(call.search.scores) = Len(call.legal_moves)
        /\ call.search.random =>
              \A i \in 1..Len(call.search.scores) :
                  ~Better(call.color, call.search.scores[i], Sentinel(call.color))
        /\ (~call.search.random /\ call.legal_moves # <<>>) =>
              \E i \in 1..Len(call.legal_moves) :
                  /\ call.legal_moves[i] = <<call.start, call.end>>
                  /\ \A j \in 1..Len(call.legal_moves) :
                        ~Better(call.color, call.search.scores[j],
                                call.search.scores[i])
                  /\ \A j \in 1..(i - 1) :
                        call.search.scores[j] # call.search.scores[i]

\* C31 (case): choose_move returned the first of several root moves that
\* share the best score
C31_TieBroken ==
    /\ call.op = "choose_move"
    /\ ~call.raised
    /\ ~call.search.random
    /\ \E i, j \in 1..Len(call.legal_moves) :
          /\ i < j
          /\ call.legal_moves[i] = <<call.start, call.end>>
          /\ call.search.scores[j] = call.search.scores[i]

\* the legal moves of color on b by the rules of chess, castling left out
RuleLegal(b, color) ==
    {mv \in Squares(b.grid, color) \X (Idx \X Idx) :
        /\ RuleMove(b, mv[1], mv[2])
        /\ KingSafe(RuleGrid(b.grid, mv[1], mv[2]), color)}

\* the captures among a set of moves on b: every one of them takes a piece
\* of the other side, so it improves the mover's material
Captures(b, moves) ==
    {mv \in moves : RuleGrid(b.grid, mv[1], mv[2])
                      # SetCell(SetCell(b.grid, mv[2], At(b.grid, mv[1])),
                                mv[1], None)
                    \/ At(b.grid, mv[2]) # None}

\* b offers color exactly one capture and at least one other move
OneCaptureOffered(b, color) ==
    /\ Cardinality(Captures(b, RuleLegal(b, color))) = 1
    /\ RuleLegal(b, color) \ Captures(b, RuleLegal(b, color)) # {}

\* C32: with the material evaluation, choose_move at depth 1 on a Board that
\* offers the engine exactly one capture and at least one other move returns
\* that capture, whichever color the engine plays.
C32_CaptureChosen ==
    (call.op = "choose_move" /\ call.depth = 1
        /\ OneCaptureOffered(pre, call.color)) =>
        /\ ~call.raised
        /\ <<call.start, call.end>> \in Captures(pre, RuleLegal(pre, call.color))

\* C32 (case): the engine playing this color returned the one capture
C32_WhiteTakes ==
    /\ call.op = "choose_move" /\ call.depth = 1 /\ call.color = WHITE
    /\ OneCaptureOffered(pre, WHITE)
    /\ <<call.start, call.end>> \in Captures(pre, RuleLegal(pre, WHITE))

\* the place of a move in the row-major order of its source square, then of
\* its destination square
MoveRank(mv) ==
    ((mv[1][1] * BoardSize + mv[1][2]) * BoardSize + mv[2][1]) * BoardSize
        + mv[2][2]

\* C33: the list get_all_legal_moves returns is ordered row-major by source
\* square (row, then column, ascending) and, for one source, row-major by
\* destination square, and lists no move twice.
C33_LegalMovesRowMajor ==
    Listed =>
        \A i, j \in 1..Len(call.legal_moves) :
            i < j => MoveRank(call.legal_moves[i]) < MoveRank(call.legal_moves[j])

\* C33 (case): a returned list holds two moves of one piece and moves of
\* several pieces
C33_SeveralMovesListed ==
    /\ Listed
    /\ \E i, j \in 1..Len(call.legal_moves) :
          /\ i < j
          /\ call.legal_moves[i][1] = call.legal_moves[j][1]
    /\ \E i, j \in 1..Len(call.legal_moves) :
          call.legal_moves[i][1] # call.legal_moves[j][1]

\* the squares strictly between start and end, which lie on one line
PathSquares(start, end) ==
    {<<start[1] + i * Sign(end[1] - start[1]),
       start[2] + i * Sign(end[2] - start[2])>> :
        i \in 1..(Max2(Abs(end[1] - start[1]), Abs(end[2] - start[2])) - 1)}

\* the last call accepted a move of a rook, bishop or queen: move_piece
\* returned True for it, or the piece's is_valid_move did
SlidingMoveAccepted ==
    /\ call.op \in {"move_piece", "is_valid_move"}
    /\ call.ret
    /\ At(pre.grid, call.start).kind \in {"R", "B", "Q"}

\* C34: a rook, bishop or queen move is accepted only if every square
\* strictly between its start and its end is empty: a sliding piece never
\* jumps over another piece.
C34_SlidersDoNotJump ==
    SlidingMoveAccepted =>
        \A sq \in PathSquares(call.start, call.end) : At(pre.grid, sq) = None

\* C34 (case): move_piece accepted a sliding move of more than one square
C34_LongSlide ==
    /\ SlidingMoveAccepted
    /\ call.op = "move_piece"
    /\ PathSquares(call.start, call.end) # {}

\* the last call was a move_piece that took a pawn to its far rank and
\* returned True
PromotionAccepted ==
    /\ Accepted
    /\ At(pre.grid, call.start).kind = "P"
    /\ call.end[1] = (IF pre.current_turn = WHITE THEN 0 ELSE BoardSize - 1)

\* answer, as typed, names one of the four pieces a pawn may become
ValidAnswer(answer) ==
    answer \in {"Q", "R", "B", "N", "q", "r", "b", "n"}

\* C35: a move that takes a pawn to the far rank is committed only after an
\* answer naming a queen, rook, bishop or knight has been typed; the answers
\* before it, none of them valid, are asked again and not replaced by a
\* default, and after the move the destination square holds a piece of the
\* mover's color of the kind of the first valid answer, never a pawn.
C35_PromotionTakesFirstValidChoice ==
    PromotionAccepted =>
        \E k \in 1..Len(call.typed) :
            /\ ValidAnswer(call.typed[k])
            /\ \A j \in 1..(k - 1) : ~ValidAnswer(call.typed[j])
            /\ At(grid, call.end).kind = upper(call.typed[k])
            /\ At(grid, call.end).kind # "P"
            /\ At(grid, call.end).color = pre.current_turn
            /\ LastMove.promotion_piece = At(grid, call.end)

\* C35 (case): a promotion was accepted after an answer that is no piece
C35_AskedAgain ==
    /\ PromotionAccepted
    /\ Len(call.typed) > 1
    /\ ~ValidAnswer(call.typed[1])

\* no king of color stands on grid g
Kingless(g, color) ==
    \A sq \in Squares(g, color) : At(g, sq).kind # "K"

\* C36: when no king of the queried color is on the board, is_in_check(color)
\* returns False without raising, and so does is_checkmate(color); the
\* move_piece that takes a king, which asks both about the side left without
\* one, returns as well.
C36_MissingKingIsNotInCheck ==
    /\ (call.op \in {"is_in_check", "is_checkmate"}
            /\ Kingless(pre.grid, call.color))
          => (~call.raised /\ ~call.ret)
    /\ (Made /\ Kingless(grid, current_turn) /\ ~Kingless(pre.grid, current_turn))
          => (~call.raised /\ call.ret)

\* C36 (case): is_in_check was asked about a color that has no king
C36_AskedWithoutKing ==
    /\ call.op = "is_in_check"
    /\ Kingless(pre.grid, call.color)
    /\ ~call.ret

\* the position of b is terminal: the side to move has no legal move
\* (checkmate or stalemate), or is_draw() holds
Terminal(b) == NoLegalMove(b, b.current_turn) \/ is_draw(b)

\* C37: in every state reached from a new Board by move_piece and undo_move
\* calls, game_over is true if and only if the position is terminal: the side
\* to move is checkmated or stalemated, or is_draw() holds.
C37_GameOverIffTerminal ==
    (call.op \in {"new", "move_piece", "undo_move"})
        => (game_over <=> Terminal(Board))

\* C38: after a successful undo_move, last_move is the (start, end) of the
\* move now on top of move_history, or None when the history is empty.
C38_UndoRestoresLastMove ==
    (call.op = "undo_move" /\ call.ret)
        => last_move = (IF move_history = <<>> THEN NoMove
                        ELSE <<LastMove.start, LastMove.end>>)

MaxPlain == 2

\* minimax as ai.py writes it, without the two break statements: the same
\* calls on the same Board, every move of every node searched
RECURSIVE PlainMinimax(_, _, _, _, _, _, _)
RECURSIVE PlainLoop(_, _, _, _, _, _, _)

PlainUndone(is_maximizing, acc, eval, plies, u) ==
    [MinimaxUndone(is_maximizing, acc, eval, plies, u) EXCEPT !.cut = FALSE]

PlainSearched(is_maximizing, acc, s) ==
    IF s.raised THEN MinimaxFailed(acc, s.board, s.plies)
    ELSE PlainUndone(is_maximizing, [acc EXCEPT !.matched = @ /\ s.matched],
                     s.score, s.plies, undo_move(s.board))

PlainMoved(color, depth, is_maximizing, acc, choice, m) ==
    IF m.raised THEN MinimaxFailed(acc, m.board, {})
    ELSE PlainSearched(is_maximizing, [acc EXCEPT !.matched = @ /\ m.ret],
            PlainMinimax(m.board, color, depth - 1, acc.alpha, acc.beta,
                         ~is_maximizing, choice))

PlainCreated(color, depth, is_maximizing, acc, choice, move_object) ==
    PlainMoved(color, depth, is_maximizing, acc, choice,
        move_piece(acc.board, move_object.start, move_object.end, choice))

PlainBody(color, depth, is_maximizing, move_coords, acc, choice) ==
    PlainCreated(color, depth, is_maximizing, acc, choice,
        create_move_object(move_coords, acc.board))

PlainLoop(color, depth, is_maximizing, moves, i, acc, choice) ==
    IF i > Len(moves) \/ acc.raised THEN acc
    ELSE PlainLoop(color, depth, is_maximizing, moves, i + 1,
            PlainBody(color, depth, is_maximizing, moves[i], acc, choice),
            choice)

PlainGenerated(b, color, depth, alpha, beta, is_maximizing, choice, mover, l) ==
    IF l.raised
    THEN [score |-> 0, board |-> [b EXCEPT !.grid = l.grid], raised |-> TRUE,
          plies |-> {<<mover, is_maximizing>>}, matched |-> TRUE]
    ELSE MinimaxFinished(
            PlainLoop(color, depth, is_maximizing, l.legal_moves, 1,
                [board |-> [b EXCEPT !.grid = l.grid],
                 value |-> IF is_maximizing THEN -Inf ELSE Inf,
                 alpha |-> alpha, beta |-> beta, cut |-> FALSE,
                 raised |-> FALSE, plies |-> {<<mover, is_maximizing>>},
                 matched |-> TRUE],
                choice))

PlainMinimax(b, color, depth, alpha, beta, is_maximizing, choice) ==
    IF depth = 0 \/ b.game_over
    THEN [score |-> evaluate_board(b, color), board |-> b, raised |-> FALSE,
          plies |-> {}, matched |-> TRUE]
    ELSE PlainGenerated(b, color, depth, alpha, beta, is_maximizing, choice,
            IF is_maximizing THEN color ELSE Other(color),
            get_all_legal_moves(b, IF is_maximizing THEN color ELSE Other(color)))

\* choose_move's loop over the unpruned search
PlainChooseMoved(color, depth, move_coords, acc, choice, m) ==
    IF m.raised THEN ChooseFailed(acc, m.board, {})
    ELSE ChooseSearched(color, move_coords,
            [acc EXCEPT !.matched = @ /\ m.ret],
            PlainMinimax(m.board, color, depth - 1, -Inf, Inf, FALSE, choice))

PlainChooseCreated(color, depth, move_coords, acc, choice, move_object) ==
    PlainChooseMoved(color, depth, move_coords, acc, choice,
        move_piece(acc.board, move_object.start, move_object.end, choice))

PlainChooseBody(color, depth, move_coords, acc, choice) ==
    PlainChooseCreated(color, depth, move_coords, acc, choice,
        create_move_object(move_coords, acc.board))

RECURSIVE PlainChooseLoop(_, _, _, _, _, _)
PlainChooseLoop(color, depth, moves, i, acc, choice) ==
    IF i > Len(moves) \/ i > MaxPlain \/ acc.raised THEN acc
    ELSE PlainChooseLoop(color, depth, moves, i + 1,
            PlainChooseBody(color, depth, moves[i], acc, choice), choice)

\* the scores the unpruned search gives the first root moves of the list l
\* that get_all_legal_moves(color) returned on b
PlainScoresOf(b, color, depth, choice, l) ==
    PlainChooseLoop(color, depth, l.legal_moves, 1,
        [board |-> [b EXCEPT !.grid = l.grid],
         best_score |-> IF color = WHITE THEN -Inf ELSE Inf,
         best_move |-> NoMove, raised |-> FALSE, plies |-> {},
         scores |-> <<>>, matched |-> TRUE],
        choice).scores

PlainScores(b, color, depth, choice) ==
    PlainScoresOf(b, color, depth, choice, get_all_legal_moves(b, color))

\* the last call was a minimax that returned its score
Valued == call.op = "minimax" /\ ~call.raised

====
